---- MODULE Spec2Model ----
(***************************************************************************)
(* A model of the deep-search / deep-patent-agent-search repository:       *)
(*   - the research pipeline of deep-search/app/agent.py with its          *)
(*     iterative_refinement_loop, EscalationChecker and the                *)
(*     trace_persistence_callback,                                         *)
(*   - the TracePersistenceService of app_utils/trace_persistence.py and   *)
(*     the AgentEngineApp wrappers around it,                              *)
(*   - the artifact writer callbacks of domain_agents/base.py.             *)
(*                                                                         *)
(*   - scripts/phase_router.py with the APP_REGISTRY of                    *)
(*     agent_engine_app.py, and scripts/run_adk_agents.py.                 *)
(*                                                                         *)
(* The specifications share the variables:                                 *)
(*   Spec          one session running research_pipeline,                  *)
(*   SpecStore     calls of the trace persistence service and wrappers,    *)
(*   SpecArtifact  the write_state_json / write_state_text callbacks,      *)
(*   SpecRouter    a run of phase_router against agent_engine_app,         *)
(*   SpecConc      save calls of concurrent callers, interleaved,          *)
(*   SpecFeedback  research_evaluator outputs under the Feedback schema,   *)
(*   SpecSources   collect_research_sources_callback over a session,       *)
(*   SpecRun       a run of run_adk_agents.                                *)
(***************************************************************************)
EXTENDS Integers, Sequences, FiniteSets, TLC

VARIABLES
    pc,              \* position of the session inside research_pipeline
    max_iterations,  \* LoopAgent.max_iterations (config.max_search_iterations)
    times_looped,    \* completed iterations of iterative_refinement_loop
    state,           \* session.state: key -> value
    events,          \* session.events, in insertion order
    engine,          \* does the invocation context expose an agent engine
                     \* (an app with save_agent_event_trace)
    storage_type,    \* TracePersistenceConfig.storage_type
    storage,         \* the files / blobs of the trace store
    nextId,          \* how many uuid4 values were drawn so far
    now,             \* the wall clock, in seconds
    tzOffset,        \* local time minus UTC of the process, in seconds
    lastOp,          \* the last service / callback call and its outcome
    artifacts,       \* the files under ARTIFACT_ROOT: filename -> content
    artRoot,         \* does the ARTIFACT_ROOT directory exist
    argv,            \* phase_router's command line: phase, agent override, mode
    environ,         \* os.environ["ADK_AGENT_NAME"]
    rpc,             \* position of the phase_router run
    selected,        \* the APP_REGISTRY key of the app agent_engine_app serves
    posted,          \* the appName of the /run payload phase_router posted
    rlog,            \* what phase_router and agent_engine_app logged or printed
    proc,            \* the server process phase_router spawned (subprocess.Popen)
    writers,         \* the save calls in progress, one concurrent caller per session
    runner           \* the run of scripts/run_adk_agents.py

vars == <<pc, max_iterations, times_looped, state, events, engine,
          storage_type, storage, nextId, now, tzOffset, lastOp,
          artifacts, artRoot, argv, environ, rpc, selected, posted, rlog, proc,
          writers, runner>>

pipeVars  == <<pc, max_iterations, times_looped, state, events, engine>>
storeVars == <<storage_type, storage, nextId, now, tzOffset>>
artVars   == <<artifacts, artRoot>>
routeVars == <<argv, environ, rpc, selected, posted, rlog, proc>>
concVars  == <<writers>>
runVars   == <<runner>>

(***************************************************************************)
(* Text whose letter case matters is a record: base is the text in lower   *)
(* case without surrounding blanks, caps the positions written in upper    *)
(* case, pad tells whether blanks surround it; none marks Python's None.   *)
(***************************************************************************)
Txt(base, caps) == [none |-> FALSE, base |-> base, caps |-> caps, pad |-> FALSE]
Lit(base) == Txt(base, {})
None == [none |-> TRUE, base |-> "", caps |-> {}, pad |-> FALSE]
Padded(t) == [t EXCEPT !.pad = TRUE]

\* str.lower()
Lower(t) == [t EXCEPT !.caps = {}]

\* str.strip()
Strip(t) == [t EXCEPT !.pad = FALSE]

\* phase_router is not running.
IdleRouter ==
    /\ argv = [phase |-> Lit(""), agent |-> None, mode |-> "-"]
    /\ environ = None
    /\ rpc = "idle"
    /\ selected = None
    /\ posted = None
    /\ rlog = {}
    /\ proc = "none"

\* No save call is in progress.
IdleWriters == writers = <<>>

\* run_adk_agents: its command line (the pieces of --agents between the
\* commas), the agents it resolved, the agent it is at and the URL variant
\* it tries next, what create_session did for that agent, the outcomes of
\* the run requests sent for it, one record per agent it is through with,
\* any_fail, and the exit code (-1 while it runs).
NotRunning ==
    [at |-> "idle", args |-> <<>>, agents |-> <<>>, i |-> 0, url |-> 0,
     created |-> FALSE, session_calls |-> 0, run |-> <<>>, log |-> <<>>,
     any_fail |-> FALSE, code |-> -1]

IdleRunner == runner = NotRunning

(***************************************************************************)
(* Bounds of the model.                                                    *)
(***************************************************************************)
MaxIter == 3
MaxPreEvents == 2
MaxSaves == 1
MaxDays == 1
MaxWrites == 2
MaxSrcEvents == 2
MaxAgents == 2

(***************************************************************************)
(* Values held in session state.  Every value is a record of the same      *)
(* shape; kind tells the Python type.  The dict and str values modelled    *)
(* are non-empty.                                                          *)
(***************************************************************************)
NoneVal     == [kind |-> "none", grade |-> "-"]
PassDict    == [kind |-> "dict", grade |-> "pass"]
FailDict    == [kind |-> "dict", grade |-> "fail"]
NoGradeDict == [kind |-> "dict", grade |-> "-"]
RawStr      == [kind |-> "str",  grade |-> "-"]

\* What research_evaluator can leave under its output_key: a Feedback dict,
\* nothing at all (NoneVal: no write), or a value that is no Feedback.
EvalOutputs == {PassDict, FailDict, NoGradeDict, RawStr, NoneVal}

\* Session state a run can start from (a fresh session, one preloaded with
\* state, or one that already ran the pipeline).
InitEvaluations == {NoneVal, PassDict, FailDict, RawStr}

EVAL_KEY == "research_evaluation"

\* Python truthiness of a state value.
Truthy(v) == v.kind # "none"

\* v.get("grade"): only a dict has get; a str raises AttributeError.
HasGet(v) == v.kind = "dict"

(***************************************************************************)
(* Events.                                                                 *)
(***************************************************************************)
Event(author, escalate, content) ==
    [author |-> author, escalate |-> escalate, content |-> content]

CountBy(evs, a) == Cardinality({i \in 1..Len(evs) : evs[i].author = a})

\* An event of a step that used google_search: grounding_metadata with its
\* grounding_chunks and grounding_supports.  A chunk is [web, uri] (web is
\* FALSE for a chunk that is no web page), a support is
\* [segment, chunk_indices, confidence_scores], the indices counted from 0.
GroundedEvent(author, chunks, supports) ==
    [author |-> author, escalate |-> FALSE, content |-> NoneVal,
     chunks |-> chunks, supports |-> supports]

WebChunk(uri) == [web |-> TRUE, uri |-> uri]
OtherChunk == [web |-> FALSE, uri |-> "-"]

Support(segment, chunk_indices, confidence_scores) ==
    [segment |-> segment, chunk_indices |-> chunk_indices,
     confidence_scores |-> confidence_scores]

\* event.grounding_metadata.grounding_chunks / .grounding_supports; an event
\* without grounding metadata has none.
GroundingChunks(e) == IF "chunks" \in DOMAIN e THEN e.chunks ELSE <<>>
GroundingSupports(e) == IF "supports" \in DOMAIN e THEN e.supports ELSE <<>>

(***************************************************************************)
(* Session state and Python dicts are functions from keys to values.       *)
(***************************************************************************)
EmptyDict == <<>>

\* d.get(key, default)
DictGetOr(d, key, default) == IF key \in DOMAIN d THEN d[key] ELSE default

\* d[key] = v
DictPut(d, key, v) == [k \in DOMAIN d \cup {key} |-> IF k = key THEN v ELSE d[k]]

(***************************************************************************)
(* collect_research_sources_callback.                                      *)
(***************************************************************************)
\* f"src-{id_counter}"
ShortId(n) == <<"src-", n>>

\* The entry made for a new source.
Source(short_id, chunk) ==
    [short_id |-> short_id, url |-> chunk.uri, supported_claims |-> <<>>]

\* A counter that starts at 1 at every invocation.
IdCounterFromOne(url_to_short_id) == 1

\* id_counter = len(url_to_short_id) + 1
IdCounterStart(url_to_short_id) == Cardinality(DOMAIN url_to_short_id) + 1

\* The body of "for idx, chunk in enumerate(grounding_chunks)" for one
\* chunk; acc holds url_to_short_id, sources, id_counter and chunks_info.
AddChunk(acc, chunk, idx) ==
    IF ~chunk.web THEN acc
    ELSE IF chunk.uri \in DOMAIN acc.url_to_short_id
    THEN [acc EXCEPT !.chunks_info = DictPut(@, idx, acc.url_to_short_id[chunk.uri])]
    ELSE LET short_id == ShortId(acc.id_counter)
         IN  [url_to_short_id |-> DictPut(acc.url_to_short_id, chunk.uri, short_id),
              sources |-> DictPut(acc.sources, short_id, Source(short_id, chunk)),
              id_counter |-> acc.id_counter + 1,
              chunks_info |-> DictPut(acc.chunks_info, idx, short_id)]

RECURSIVE AddChunks(_, _, _)
AddChunks(acc, chunks, idx) ==
    IF idx >= Len(chunks) THEN acc
    ELSE AddChunks(AddChunk(acc, chunks[idx + 1], idx), chunks, idx + 1)

\* confidence_scores[i] if i < len(confidence_scores) else 0.5, in tenths.
Confidence(confidence_scores, i) ==
    IF i < Len(confidence_scores) THEN confidence_scores[i + 1] ELSE 5

\* The body of "for i, chunk_idx in enumerate(chunk_indices)": the claim is
\* appended to the source the chunk belongs to.
AddClaim(acc, support, i) ==
    LET chunk_idx == support.chunk_indices[i + 1]
    IN  IF chunk_idx \notin DOMAIN acc.chunks_info THEN acc
        ELSE [acc EXCEPT !.sources[acc.chunks_info[chunk_idx]].supported_claims =
                 Append(@, [text_segment |-> support.segment,
                            confidence |-> Confidence(support.confidence_scores, i)])]

RECURSIVE AddClaims(_, _, _)
AddClaims(acc, support, i) ==
    IF i >= Len(support.chunk_indices) THEN acc
    ELSE AddClaims(AddClaim(acc, support, i), support, i + 1)

RECURSIVE AddSupports(_, _)
AddSupports(acc, supports) ==
    IF supports = <<>> THEN acc
    ELSE AddSupports(AddClaims(acc, Head(supports), 0), Tail(supports))

\* The body of "for event in session.events".
CollectEvent(acc, event) ==
    IF GroundingChunks(event) = <<>> THEN acc
    ELSE AddSupports(AddChunks([acc EXCEPT !.chunks_info = EmptyDict],
                               GroundingChunks(event), 0),
                     GroundingSupports(event))

RECURSIVE CollectEvents(_, _)
CollectEvents(acc, evs) ==
    IF evs = <<>> THEN acc
    ELSE CollectEvents(CollectEvent(acc, Head(evs)), Tail(evs))

\* collect_research_sources_callback: session state after the callback.
collect_research_sources_callback(evs, st) ==
    LET url_to_short_id == DictGetOr(st, "url_to_short_id", EmptyDict)
        sources == DictGetOr(st, "sources", EmptyDict)
        r == CollectEvents([url_to_short_id |-> url_to_short_id,
                            sources |-> sources,
                            id_counter |-> IdCounterStart(url_to_short_id),
                            chunks_info |-> EmptyDict], evs)
    IN  DictPut(DictPut(st, "url_to_short_id", r.url_to_short_id),
                "sources", r.sources)

(***************************************************************************)
(* Strings are sequences of one-character tokens (".json" and ".snapshot"  *)
(* are one token each).                                                    *)
(***************************************************************************)
Digit(k) == <<"0", "1", "2", "3", "4", "5", "6", "7", "8", "9">>[k + 1]
Hex(k)   == <<"a", "b", "c", "d">>[k + 1]

\* str(uuid.uuid4()): the n-th value drawn.  All have the same length and
\* no two are equal.
Uuid(n) == <<Hex((n \div 64) % 4), Hex((n \div 16) % 4), "-",
             Hex((n \div 4) % 4), Hex(n % 4)>>

SecondsPerDay == 24 * 60 * 60
SecondsPerHour == 60 * 60

\* datetime.utcnow().strftime("%Y%m%d_%H%M%S"): the date, "_", the time of
\* day, both of fixed width.
TsStr(t) ==
    LET d == t \div SecondsPerDay
        s == t % SecondsPerDay
    IN <<Digit(d % 10), "_",
         Digit((s \div 10000) % 10), Digit((s \div 1000) % 10),
         Digit((s \div 100) % 10), Digit((s \div 10) % 10), Digit(s % 10)>>

\* A name made of the timestamp and the type only.
TraceFileNameWithoutId(t, id, suffix) == TsStr(t) \o <<suffix>>

\* _get_trace_file_path / _get_gcs_blob_path: "{timestamp}_{trace_id}.{type}";
\* suffix is ".json" or ".snapshot".
TraceFileName(t, id, suffix) == TsStr(t) \o <<"_">> \o id \o <<suffix>>

\* Python's "a in b" on strings.
IsSubstr(a, b) ==
    \E i \in 0..(Len(b) - Len(a)) : \A j \in 1..Len(a) : b[i + j] = a[j]

\* name.endswith(suffix), suffix one token.
EndsWith(name, suffix) == Len(name) > 0 /\ name[Len(name)] = suffix

\* The code point order of the characters that occur in names.
CharRank(c) ==
    CASE c = "-" -> 0
      [] c \in {".json", ".snapshot"} -> 1
      [] c = "0" -> 10 [] c = "1" -> 11 [] c = "2" -> 12 [] c = "3" -> 13
      [] c = "4" -> 14 [] c = "5" -> 15 [] c = "6" -> 16 [] c = "7" -> 17
      [] c = "8" -> 18 [] c = "9" -> 19
      [] c = "_" -> 30
      [] c = "a" -> 40 [] c = "b" -> 41 [] c = "c" -> 42 [] c = "d" -> 43
      [] OTHER -> 50

\* a < b for strings (lexicographic).
StrLess(a, b) ==
    \E i \in 1..Len(b) :
        /\ \A j \in 1..(i - 1) : j <= Len(a) /\ a[j] = b[j]
        /\ (i > Len(a) \/ CharRank(a[i]) < CharRank(b[i]))

(***************************************************************************)
(* Records of the trace store.  AgentEventTrace and SessionStateSnapshot   *)
(* objects are records                                                     *)
(*   [id, session_id, timestamp, agent_name, payload]                      *)
(* (id is trace_id or snapshot_id; agent_name is "-" for a snapshot;       *)
(* timestamp is the datetime as a number of seconds).                      *)
(***************************************************************************)
TraceObj(id, sid, t, agent, payload) ==
    [id |-> id, session_id |-> sid, timestamp |-> t, agent_name |-> agent,
     payload |-> payload]

Payload(idx, count, st) == [event_index |-> idx, event_count |-> count, state |-> st]

\* BaseModel.model_dump() (mode "python"): the fields as Python objects;
\* the datetime stays a datetime object (Config.json_encoders is used by the
\* JSON mode only).
ModelDump(obj) == [obj EXCEPT !.timestamp = [ty |-> "datetime", v |-> obj.timestamp]]

\* json.dump / json.dumps without a default hook encode str, numbers,
\* dicts, lists, booleans and None; anything else raises TypeError.
JsonEncodable(data) == data.timestamp.ty \in {"str", "int"}

\* What json.load gives back for a complete file.
JsonText(data) == data

\* AgentEventTrace(**data) / SessionStateSnapshot(**data): pydantic parses
\* the ISO string (or passes the datetime on).
ParseModel(data) == [data EXCEPT !.timestamp = data.timestamp.v]

\* A file or blob: complete is FALSE when only a prefix of the JSON text was
\* written.
File(name, complete, data, mtime) ==
    [name |-> name, complete |-> complete, data |-> data, mtime |-> mtime]

\* Writing a name replaces what was stored under it.
Put(store, f) == {g \in store : g.name # f.name} \cup {f}

\* Path.glob("*.json") / blob.name.endswith(".json")
Glob(store, suffix) == {f \in store : EndsWith(f.name, suffix)}

(***************************************************************************)
(* TracePersistenceService.  Every operation is an operator from the store *)
(* and the call's inputs to an outcome                                     *)
(*   [storage, ret, raised, exc, logged]                                   *)
(* ret is <<>> for None and <<v>> for a returned value v; logged is the    *)
(* level of the message the operation itself logged last.  io tells        *)
(* whether the backend can be reached ("ok") or not ("unavailable": open() *)
(* or storage.Client() raises).                                            *)
(***************************************************************************)
IoOutcomes == {"ok", "unavailable"}

Outcome(store, ret, raised, exc, logged) ==
    [storage |-> store, ret |-> ret, raised |-> raised, exc |-> exc, logged |-> logged]

\* The except clause of save_event_trace / save_session_snapshot:
\* logger.error(...) and raise.
SaveFailed(store, exc) == Outcome(store, <<>>, TRUE, exc, "error")

\* save_event_trace (suffix ".json") and save_session_snapshot (".snapshot"):
\* the two bodies differ in the file type only.
\*   local: open(path, "w") creates the file, json.dump writes the text
\*          piece by piece, so a TypeError leaves a truncated file behind;
\*   gcs:   json.dumps runs before upload_from_string, so nothing is stored.
SaveRecord(store, obj, suffix, stype, clock, io) ==
    LET data == ModelDump(obj)
        name == TraceFileName(clock, obj.id, suffix)
    IN  IF io # "ok" THEN SaveFailed(store, "OSError")
        ELSE IF JsonEncodable(data)
             THEN Outcome(Put(store, File(name, TRUE, JsonText(data), clock)),
                          <<obj.id>>, FALSE, "-", "info")
        ELSE IF stype = "local"
             THEN SaveFailed(Put(store, File(name, FALSE, data, clock)), "TypeError")
        ELSE SaveFailed(store, "TypeError")

save_event_trace(store, obj, stype, clock, io) ==
    SaveRecord(store, obj, ".json", stype, clock, io)

save_session_snapshot(store, obj, stype, clock, io) ==
    SaveRecord(store, obj, ".snapshot", stype, clock, io)

\* The first stored object the scan meets whose name contains the id.
\* Path.glob yields the directory's entries in no particular order;
\* list_blobs yields the blobs in the order of their names.
FirstCandidates(store, id, suffix, stype) ==
    LET m == {f \in Glob(store, suffix) : IsSubstr(id, f.name)}
    IN  IF stype = "local" THEN m
        ELSE {f \in m : \A g \in m \ {f} : StrLess(f.name, g.name)}

\* The outcome of load_event_trace / load_session_snapshot once the scan has
\* stopped at file f: a file that does not hold complete JSON makes json.load
\* raise, which the except clause logs, and None is returned.
LoadFound(store, f) ==
    IF f.complete
    THEN Outcome(store, <<ParseModel(f.data)>>, FALSE, "-", "none")
    ELSE Outcome(store, <<>>, FALSE, "-", "error")

\* A load that raises when the scan ends without a match.
LoadNotFoundRaises(store) == Outcome(store, <<>>, TRUE, "FileNotFoundError", "error")

\* The outcome when the scan ends without a match.
LoadNotFound(store) == Outcome(store, <<>>, FALSE, "-", "none")

\* The outcome when the backend cannot be reached: logged, None.
LoadUnavailable(store) == Outcome(store, <<>>, FALSE, "-", "error")

\* The outcomes load_event_trace(id) / load_session_snapshot(id) can have.
LoadOutcomes(store, id, suffix, stype, io) ==
    IF io # "ok" /\ stype = "gcs" THEN {LoadUnavailable(store)}
    ELSE IF io # "ok" THEN {LoadNotFound(store)}
    ELSE IF FirstCandidates(store, id, suffix, stype) = {} THEN {LoadNotFound(store)}
    ELSE {LoadFound(store, f) : f \in FirstCandidates(store, id, suffix, stype)}

load_event_trace(store, id, stype, io) == LoadOutcomes(store, id, ".json", stype, io)

load_session_snapshot(store, id, stype, io) == LoadOutcomes(store, id, ".snapshot", stype, io)

\* The files of S as a sequence, names descending / ascending.
RECURSIVE SortDesc(_)
SortDesc(S) ==
    IF S = {} THEN <<>>
    ELSE LET m == CHOOSE f \in S : \A g \in S \ {f} : StrLess(g.name, f.name)
         IN  <<m>> \o SortDesc(S \ {m})

RECURSIVE SortAsc(_)
SortAsc(S) ==
    IF S = {} THEN <<>>
    ELSE LET m == CHOOSE f \in S : \A g \in S \ {f} : StrLess(f.name, g.name)
         IN  <<m>> \o SortAsc(S \ {m})

\* The dict list_traces appends for a stored trace.
Summary(f) ==
    [trace_id |-> f.data.id, session_id |-> f.data.session_id,
     timestamp |-> f.data.timestamp.v, agent_name |-> f.data.agent_name,
     path |-> f.name]

\* session_id is None ("*") or the trace's session id.
SessionMatches(f, sid) == sid = "*" \/ f.data.session_id = sid

\* list_traces, local: sorted(glob("*.json"), reverse=True)[:limit], then the
\* session filter; a file that cannot be read is logged and skipped.
RECURSIVE ListLocal(_, _)
ListLocal(files, sid) ==
    IF files = <<>> THEN <<>>
    ELSE LET f == Head(files)
         IN  (IF f.complete /\ SessionMatches(f, sid) THEN <<Summary(f)>> ELSE <<>>)
             \o ListLocal(Tail(files), sid)

\* list_traces, gcs: the blobs in name order; the loop breaks once limit
\* traces were collected.
RECURSIVE ListGcs(_, _, _, _)
ListGcs(blobs, sid, limit, acc) ==
    IF blobs = <<>> \/ Len(acc) >= limit THEN acc
    ELSE LET b == Head(blobs)
         IN  ListGcs(Tail(blobs), sid, limit,
                     IF EndsWith(b.name, ".json") /\ b.complete /\ SessionMatches(b, sid)
                     THEN Append(acc, Summary(b)) ELSE acc)

Take(s, n) == SubSeq(s, 1, IF n < Len(s) THEN n ELSE Len(s))

list_traces(store, sid, limit, stype, io) ==
    IF io # "ok"
    THEN Outcome(store, <<<<>>>>, FALSE, "-", IF stype = "gcs" THEN "error" ELSE "none")
    ELSE IF stype = "local"
    THEN Outcome(store, <<ListLocal(Take(SortDesc(Glob(store, ".json")), limit), sid)>>,
                 FALSE, "-", "none")
    ELSE Outcome(store, <<ListGcs(SortAsc(store), sid, limit, <<>>)>>, FALSE, "-", "none")

\* datetime.utcnow().timestamp(): utcnow() is a naive datetime holding the
\* UTC wall clock, and timestamp() reads a naive datetime as local time.
UtcNowTimestamp(clock, tz) == clock - tz

\* cleanup_old_traces
Cutoff(clock, tz, max_age_days) == UtcNowTimestamp(clock, tz) - max_age_days * SecondsPerDay

\* A cleanup that looks at every file of the directory.
ExpiredAnyType(store, clock, tz, max_age_days) ==
    {f \in store : f.mtime < Cutoff(clock, tz, max_age_days)}

\* for trace_file in storage_path.glob("*.json"): if st_mtime < cutoff: unlink
Expired(store, clock, tz, max_age_days) ==
    {f \in Glob(store, ".json") : f.mtime < Cutoff(clock, tz, max_age_days)}

cleanup_old_traces(store, max_age_days, stype, clock, tz) ==
    IF stype # "local"
    THEN Outcome(store, <<0>>, FALSE, "-", "warning")
    ELSE Outcome(store \ Expired(store, clock, tz, max_age_days),
                 <<Cardinality(Expired(store, clock, tz, max_age_days))>>,
                 FALSE, "-", "info")

(***************************************************************************)
(* AgentEngineApp: the wrappers the callbacks call.                        *)
(***************************************************************************)
\* The names bound at module level in agent_engine_app (its imports, the
\* class and its module-level assignments).
EngineAppGlobals ==
    {"logging", "os", "Any", "Optional", "App", "vertexai", "GcsArtifactService",
     "InMemoryArtifactService", "google_cloud_logging", "AdkApp", "adk_app",
     "setup_telemetry", "TracePersistenceService",
     "create_trace_persistence_service_from_env",
     "create_event_trace_from_adk_event", "SessionStateSnapshot",
     "AgentEventTrace", "Feedback", "AgentEngineApp", "gemini_location",
     "logs_bucket_name", "agent_engine"}

\* Evaluating a global name that is not bound raises NameError.
NameBound(n) == n \in EngineAppGlobals

\* create_event_trace_from_adk_event: a new AgentEventTrace (its trace_id is
\* the n-th uuid4, its timestamp utcnow()) for the event.
create_event_trace_from_adk_event(event, sid, idx, count, n, clock) ==
    TraceObj(Uuid(n), sid, clock, event.author, Payload(idx, count, NoneVal))

\* SessionStateSnapshot(session_id=..., state=...).  The snapshot has no
\* field for the number of events; payload.event_count records
\* len(session.events) at the call, to tell at which count it was taken.
NewSnapshot(sid, st, count, n, clock) ==
    TraceObj(Uuid(n), sid, clock, "-", Payload(0, count, st))

\* The try / except of save_agent_event_trace and of
\* AgentEngineApp.save_session_snapshot around the service's outcome r:
\*   try:    id = service.save(...); logger.info(...); return id
\*   except: logger.error(...); raise
\* Both branches evaluate the global name logger.
EngineWrap(r) ==
    IF ~NameBound("logger")
    THEN Outcome(r.storage, <<>>, TRUE, "NameError", "none")
    ELSE IF r.raised THEN Outcome(r.storage, <<>>, TRUE, r.exc, "error")
    ELSE Outcome(r.storage, r.ret, FALSE, "-", "info")

save_agent_event_trace(store, event, sid, idx, count, stype, n, clock, io) ==
    EngineWrap(save_event_trace(
        store, create_event_trace_from_adk_event(event, sid, idx, count, n, clock),
        stype, clock, io))

engine_save_session_snapshot(store, sid, st, count, stype, n, clock, io) ==
    EngineWrap(save_session_snapshot(store, NewSnapshot(sid, st, count, n, clock),
                                     stype, clock, io))

(***************************************************************************)
(* SpecStore: a client calling the service and the wrappers, one call      *)
(* after the other, on a store that may already hold archived records.     *)
(***************************************************************************)
Sessions == {"s1", "s2"}

\* The session the calls under test save for.
SaveSessions == {"s1"}

ArchivedData(n, sid, t, agent) ==
    [id |-> Uuid(n), session_id |-> sid, timestamp |-> [ty |-> "str", v |-> t],
     agent_name |-> agent, payload |-> Payload(0, 0, NoneVal)]

\* Records found in the store when the service is constructed (the directory
\* or bucket outlives the process): complete JSON texts with the timestamp
\* as an ISO string, the form load_event_trace parses.  A trace of the day
\* before, a trace written a minute ago, a snapshot of the day before.
ArchivedFiles ==
    {File(TraceFileName(10, Uuid(200), ".json"), TRUE,
          ArchivedData(200, "s1", 10, "test_agent"), 10),
     File(TraceFileName(SecondsPerDay - 60, Uuid(201), ".json"), TRUE,
          ArchivedData(201, "s2", SecondsPerDay - 60, "test_agent"), SecondsPerDay - 60),
     File(TraceFileName(30, Uuid(202), ".snapshot"), TRUE,
          ArchivedData(202, "s1", 30, "-"), 30)}

InitStores == {{}, ArchivedFiles}

\* An id no record carries.
UnknownId == Uuid(255)

\* The ids a client asks for: those of stored records, one that is unknown
\* and a fragment of an id.
RequestIds(store) == {f.data.id : f \in store} \cup {UnknownId, <<"a">>}

NoOp == [op |-> "none", arg |-> <<>>, io |-> "ok", cause |-> "-", ret |-> <<>>,
         raised |-> FALSE, exc |-> "-", logged |-> "none", changed |-> FALSE]

\* The record of a call: what was called with which input, the exception the
\* body of its try block hit ("-" when none), the outcome, and whether the
\* call changed the store.
OpRecord(op, arg, io, cause, r) ==
    [op |-> op, arg |-> arg, io |-> io, cause |-> cause, ret |-> r.ret,
     raised |-> r.raised, exc |-> r.exc, logged |-> r.logged,
     changed |-> r.storage # storage]

IdlePipe ==
    /\ pc = "idle"
    /\ max_iterations = 1
    /\ times_looped = 0
    /\ state = [k \in {EVAL_KEY} |-> NoneVal]
    /\ events = <<>>
    /\ engine = FALSE

IdleArtifacts ==
    /\ artifacts = [f \in {} |-> NoneVal]
    /\ artRoot = FALSE

InitStore ==
    /\ IdlePipe
    /\ IdleArtifacts
    /\ IdleRouter
    /\ IdleWriters
    /\ IdleRunner
    /\ storage_type \in {"local", "gcs"}
    /\ storage \in InitStores
    /\ nextId = 0
    /\ now = SecondsPerDay
    /\ tzOffset \in {0, SecondsPerHour}
    /\ lastOp = NoOp

SaveEventTrace ==
    /\ nextId < MaxSaves
    /\ \E sid \in SaveSessions, io \in IoOutcomes :
        LET obj == TraceObj(Uuid(nextId), sid, now, "test_agent", Payload(0, 0, NoneVal))
            r == save_event_trace(storage, obj, storage_type, now, io)
        IN  /\ storage' = r.storage
            /\ lastOp' = OpRecord("save_event_trace", obj, io, r.exc, r)
    /\ nextId' = nextId + 1
    /\ now' = now + 1
    /\ UNCHANGED <<storage_type, tzOffset, pipeVars, artVars, routeVars, concVars, runVars>>

SaveSessionSnapshot ==
    /\ nextId < MaxSaves
    /\ \E sid \in SaveSessions, io \in IoOutcomes :
        LET obj == NewSnapshot(sid, PassDict, 0, nextId, now)
            r == save_session_snapshot(storage, obj, storage_type, now, io)
        IN  /\ storage' = r.storage
            /\ lastOp' = OpRecord("save_session_snapshot", obj, io, r.exc, r)
    /\ nextId' = nextId + 1
    /\ now' = now + 1
    /\ UNCHANGED <<storage_type, tzOffset, pipeVars, artVars, routeVars, concVars, runVars>>

EngineSaveAgentEventTrace ==
    /\ nextId < MaxSaves
    /\ \E sid \in SaveSessions, io \in IoOutcomes :
        LET ev == Event("test_agent", FALSE, NoneVal)
            obj == create_event_trace_from_adk_event(ev, sid, 0, 1, nextId, now)
            inner == save_event_trace(storage, obj, storage_type, now, io)
            r == save_agent_event_trace(storage, ev, sid, 0, 1, storage_type, nextId, now, io)
        IN  /\ storage' = r.storage
            /\ lastOp' = OpRecord("save_agent_event_trace", obj, io, inner.exc, r)
    /\ nextId' = nextId + 1
    /\ now' = now + 1
    /\ UNCHANGED <<storage_type, tzOffset, pipeVars, artVars, routeVars, concVars, runVars>>

EngineSaveSessionSnapshot ==
    /\ nextId < MaxSaves
    /\ \E sid \in SaveSessions, io \in IoOutcomes :
        LET obj == NewSnapshot(sid, PassDict, 0, nextId, now)
            inner == save_session_snapshot(storage, obj, storage_type, now, io)
            r == engine_save_session_snapshot(storage, sid, PassDict, 0, storage_type,
                                              nextId, now, io)
        IN  /\ storage' = r.storage
            /\ lastOp' = OpRecord("engine_save_session_snapshot", obj, io, inner.exc, r)
    /\ nextId' = nextId + 1
    /\ now' = now + 1
    /\ UNCHANGED <<storage_type, tzOffset, pipeVars, artVars, routeVars, concVars, runVars>>

LoadEventTrace ==
    /\ \E id \in RequestIds(storage), io \in IoOutcomes :
        \E r \in load_event_trace(storage, id, storage_type, io) :
            /\ storage' = r.storage
            /\ lastOp' = OpRecord("load_event_trace", id, io, "-", r)
    /\ UNCHANGED <<storage_type, nextId, now, tzOffset, pipeVars, artVars, routeVars, concVars, runVars>>

LoadSessionSnapshot ==
    /\ \E id \in RequestIds(storage), io \in IoOutcomes :
        \E r \in load_session_snapshot(storage, id, storage_type, io) :
            /\ storage' = r.storage
            /\ lastOp' = OpRecord("load_session_snapshot", id, io, "-", r)
    /\ UNCHANGED <<storage_type, nextId, now, tzOffset, pipeVars, artVars, routeVars, concVars, runVars>>

ListTraces ==
    /\ \E sid \in {"*", "s1", "s3"}, limit \in 1..2, io \in IoOutcomes :
        LET r == list_traces(storage, sid, limit, storage_type, io)
        IN  /\ storage' = r.storage
            /\ lastOp' = OpRecord("list_traces", <<sid, limit>>, io, "-", r)
    /\ UNCHANGED <<storage_type, nextId, now, tzOffset, pipeVars, artVars, routeVars, concVars, runVars>>

CleanupOldTraces ==
    /\ \E max_age_days \in 0..1 :
        LET r == cleanup_old_traces(storage, max_age_days, storage_type, now, tzOffset)
        IN  /\ storage' = r.storage
            /\ lastOp' = OpRecord("cleanup_old_traces", max_age_days, "ok", "-", r)
    /\ UNCHANGED <<storage_type, nextId, now, tzOffset, pipeVars, artVars, routeVars, concVars, runVars>>

\* A day passes.
AdvanceDay ==
    /\ now + SecondsPerDay < (MaxDays + 2) * SecondsPerDay
    /\ now' = now + SecondsPerDay
    /\ lastOp' = NoOp
    /\ UNCHANGED <<storage_type, storage, nextId, tzOffset, pipeVars, artVars, routeVars, concVars, runVars>>

NextStore ==
    \/ SaveEventTrace
    \/ SaveSessionSnapshot
    \/ EngineSaveAgentEventTrace
    \/ EngineSaveSessionSnapshot
    \/ LoadEventTrace
    \/ LoadSessionSnapshot
    \/ ListTraces
    \/ CleanupOldTraces
    \/ AdvanceDay

SpecStore == InitStore /\ [][NextStore]_vars

(***************************************************************************)
(* Spec: one session running research_pipeline                             *)
(*   section_planner, section_researcher,                                  *)
(*   iterative_refinement_loop [research_evaluator, escalation_checker,    *)
(*                              enhanced_search_executor],                 *)
(*   report_composer.                                                      *)
(* Every step appends one event to session.events.                         *)
(***************************************************************************)
SESSION == "s1"

\* The events a session holds before research_pipeline starts: the user's
\* message and what interactive_planner_agent emitted.
PreEvents(k) ==
    [i \in 1..k |-> Event(IF i = 1 THEN "user" ELSE "interactive_planner_agent",
                          FALSE, NoneVal)]

\* A LoopAgent that tests its counter with <= (one iteration too many).
LoopContinuesOffByOne(t, n) == n = 0 \/ t <= n

\* LoopAgent: while not max_iterations or times_looped < max_iterations.
LoopContinues(t, n) == n = 0 \/ t < n

\* Where the session goes when an iteration of the loop (or the step before
\* the loop) is over.
AfterIteration(t, n) ==
    IF LoopContinues(t, n) THEN "research_evaluator" ELSE "report_composer"

\* A checker that lets the loop go on whatever the grade is.
EscalationCheckNeverEscalates(evaluation_result) ==
    IF ~Truthy(evaluation_result) THEN "continue"
    ELSE IF ~HasGet(evaluation_result) THEN "raise"
    ELSE "continue"

\* EscalationChecker._run_async_impl:
\*   evaluation_result = ctx.session.state.get("research_evaluation")
\*   if evaluation_result and evaluation_result.get("grade") == "pass": escalate
\*   else: continue
EscalationCheck(evaluation_result) ==
    IF ~Truthy(evaluation_result) THEN "continue"
    ELSE IF ~HasGet(evaluation_result) THEN "raise"
    ELSE IF evaluation_result.grade = "pass" THEN "escalate"
    ELSE "continue"

\* An agent runs its after_agent_callback list in order until a callback
\* returns content; that content becomes one more event of the agent.
ReturnsContent(cb) == cb = "citation_replacement_callback"

CallbackRuns(chain, k) == \A j \in 1..(k - 1) : ~ReturnsContent(chain[j])

\* A callback whose calls are not wrapped: an exception leaves the loop.
UnguardedCall(r) == r

\* The try / except around each call the callback makes:
\*   except Exception as e: logging.error(...)
\* and the callback goes on.
GuardedCall(r) ==
    Outcome(r.storage, r.ret, FALSE, "-", IF r.raised THEN "error" ELSE "none")

\* The save_agent_event_trace call for the i-th event, inside its try.  The
\* i-th call draws the uuid n + i - 1, so the calls write different names.
EventSave(evs, i, stype, n, clock) ==
    save_agent_event_trace({}, evs[i], SESSION, i - 1, Len(evs),
                           stype, n + i - 1, clock, "ok")

\* The calls of the loop "for event in session.events" with their outcomes,
\* as pairs [i, r].
EventSaves(evs, stype, n, clock) ==
    {[i |-> i, r |-> EventSave(evs, i, stype, n, clock)] : i \in 1..Len(evs)}

\* The calls the loop gets to, which are all of them unless an exception
\* left the loop.
Attempted(saves) ==
    LET left == {s.i : s \in {t \in saves : GuardedCall(t.r).raised}}
    IN  {s \in saves : \A j \in left : s.i <= j}

\* trace_persistence_callback, the loop over session.events: one
\* save_agent_event_trace call per event, each failure logged and skipped.
\* The store after the loop is the store before it with what each call
\* writes put into it.
SaveAllEvents(store, saves) ==
    LET written == UNION {s.r.storage : s \in Attempted(saves)}
    IN  {g \in store : \A f \in written : f.name # g.name} \cup written

\* len(session.events) % 5 == 0 or len(session.events) == 1
SnapshotDue(count) == count % 5 = 0 \/ count = 1

\* What a run of the callback did: the store and the number of uuids drawn
\* after it, whether it raised, the level of what it logged last, the save
\* calls made for events, how many of them failed, how many failures were
\* logged, and the snapshot step ("none": not reached or not due).
CallbackResult(store, n, logged, attempts, failed, errors, snapshot) ==
    [storage |-> store, nextId |-> n, raised |-> FALSE, logged |-> logged,
     attempts |-> attempts, failed |-> failed, errors |-> errors,
     snapshot |-> snapshot]

\* trace_persistence_callback.  It returns without a call when the
\* invocation context exposes no agent engine; the outer except clause logs
\* whatever leaves the body, so the callback itself never raises.
trace_persistence_callback(store, evs, st, eng, stype, n, clock) ==
    IF ~eng THEN CallbackResult(store, n, "warning", 0, 0, 0, "none")
    ELSE LET saves == EventSaves(evs, stype, n, clock)
             att == Attempted(saves)
             saved == SaveAllEvents(store, saves)
             failed == {s \in att : s.r.raised}
             caught == {s \in att : GuardedCall(s.r).logged = "error"}
             left == \E s \in att : GuardedCall(s.r).raised
             snap == engine_save_session_snapshot(
                         saved, SESSION, st[EVAL_KEY], Len(evs), stype,
                         n + Len(evs), clock, "ok")
         IN  IF left
             THEN CallbackResult(saved, n + Cardinality(att), "error", Cardinality(att),
                                 Cardinality(failed), Cardinality(caught), "none")
             ELSE IF SnapshotDue(Len(evs))
             THEN CallbackResult(snap.storage, n + Len(evs) + 1,
                                 IF snap.raised \/ caught # {} THEN "error" ELSE "none",
                                 Cardinality(att), Cardinality(failed), Cardinality(caught),
                                 IF snap.raised THEN "failed" ELSE "saved")
             ELSE CallbackResult(saved, n + Len(evs),
                                 IF caught # {} THEN "error" ELSE "none",
                                 Cardinality(att), Cardinality(failed), Cardinality(caught),
                                 "none")

\* output_key of the agents of research_pipeline.
OUTPUT_KEY ==
    [a \in {"section_planner", "section_researcher", "research_evaluator",
            "enhanced_search_executor", "report_composer_with_citations"} |->
        CASE a = "section_planner" -> "report_sections"
          [] a = "section_researcher" -> "patent_search_results"
          [] a = "research_evaluator" -> "research_evaluation"
          [] a = "enhanced_search_executor" -> "section_research_findings"
          [] a = "report_composer_with_citations" -> "prior_art_report"]

\* The state keys an agent's instruction tells it to work from.
READS ==
    [a \in {"section_planner", "research_evaluator", "enhanced_search_executor",
            "report_composer_with_citations"} |->
        CASE a = "section_planner" -> {"research_plan"}
          [] a = "research_evaluator" -> {"section_research_findings"}
          [] a = "enhanced_search_executor" ->
                 {"research_evaluation", "section_research_findings"}
          [] a = "report_composer_with_citations" ->
                 {"research_plan", "patent_search_results", "patent_analysis",
                  "competitive_landscape"}]

\* A text an agent left in state, with the findings it holds: parts is the
\* set of research steps whose findings are in the text, a step being
\* <<agent, iteration>> (iteration 0: before the loop).
Text(parts) == [kind |-> "str", grade |-> "-", parts |-> parts]

Finding(agent, iteration) == <<agent, iteration>>

\* The findings in the texts under the given state keys.
FindingsIn(st, keys) ==
    UNION {st[k].parts : k \in {j \in keys \cap DOMAIN st : "parts" \in DOMAIN st[j]}}

\* citation_replacement_callback: the report is taken from
\* state.get("final_cited_report", ""), its cite tags are replaced and the
\* result is stored under "final_report_with_citations".
citation_replacement_callback(st) ==
    DictPut(st, "final_report_with_citations",
            DictGetOr(st, "final_cited_report", Text({})))

ResearcherCallbacks == <<"collect_research_sources_callback", "trace_persistence_callback">>
ComposerCallbacks == <<"citation_replacement_callback", "trace_persistence_callback">>

\* Does the callback of that name run in the list?
Runs(chain, name) == \E k \in 1..Len(chain) : chain[k] = name /\ CallbackRuns(chain, k)

\* Session state after the callbacks of the list that write state.
StateAfter(chain, evs, st) ==
    LET collected == IF Runs(chain, "collect_research_sources_callback")
                     THEN collect_research_sources_callback(evs, st) ELSE st
    IN  IF Runs(chain, "citation_replacement_callback")
        THEN citation_replacement_callback(collected) ELSE collected

\* The effect of an agent's callback list on session state and on the trace
\* store, evs being the session's events and st its state when the agent has
\* finished.
AfterAgent(chain, evs, st) ==
    /\ state' = StateAfter(chain, evs, st)
    /\ IF Runs(chain, "trace_persistence_callback")
       THEN LET r == trace_persistence_callback(storage, evs, StateAfter(chain, evs, st),
                                                engine, storage_type, nextId, now)
            IN  /\ storage' = r.storage
                /\ nextId' = r.nextId
                /\ lastOp' = [op |-> "trace_persistence_callback", arg |-> Len(evs),
                              io |-> "ok", cause |-> "-",
                              ret |-> <<[attempts |-> r.attempts, failed |-> r.failed,
                                         errors |-> r.errors, snapshot |-> r.snapshot]>>,
                              raised |-> r.raised, exc |-> "-", logged |-> r.logged,
                              changed |-> r.storage # storage]
       ELSE UNCHANGED <<storage, nextId, lastOp>>

Init ==
    /\ pc = "section_planner"
    /\ max_iterations \in 1..MaxIter
    /\ times_looped = 0
    /\ state \in [{EVAL_KEY} -> InitEvaluations]
    /\ events \in {PreEvents(k) : k \in 1..MaxPreEvents}
    /\ engine \in BOOLEAN
    /\ storage_type \in {"local", "gcs"}
    /\ storage = {}
    /\ nextId = 0
    /\ now = SecondsPerDay
    /\ tzOffset = 0
    /\ lastOp = NoOp
    /\ IdleArtifacts
    /\ IdleRouter
    /\ IdleWriters
    /\ IdleRunner

SectionPlanner ==
    /\ pc = "section_planner"
    /\ events' = Append(events, Event("section_planner", FALSE, NoneVal))
    /\ state' = DictPut(state, OUTPUT_KEY["section_planner"], Text({}))
    /\ pc' = "section_researcher"
    /\ now' = now + 1
    /\ UNCHANGED <<max_iterations, times_looped, engine, storage_type,
                   storage, nextId, tzOffset, lastOp, artVars, routeVars, concVars, runVars>>

\* section_researcher leaves its findings under its output_key.
SectionResearcher ==
    /\ pc = "section_researcher"
    /\ events' = Append(events, Event("section_researcher", FALSE, NoneVal))
    /\ AfterAgent(ResearcherCallbacks, events',
                  DictPut(state, OUTPUT_KEY["section_researcher"],
                          Text({Finding("section_researcher", 0)})))
    /\ pc' = AfterIteration(times_looped, max_iterations)
    /\ now' = now + 1
    /\ UNCHANGED <<max_iterations, times_looped, engine, storage_type,
                   tzOffset, artVars, routeVars, concVars, runVars>>

\* research_evaluator: output_key = "research_evaluation".
ResearchEvaluator ==
    /\ pc = "research_evaluator"
    /\ \E out \in EvalOutputs :
        /\ events' = Append(events, Event("research_evaluator", FALSE, out))
        /\ state' = IF out = NoneVal THEN state ELSE [state EXCEPT ![EVAL_KEY] = out]
    /\ pc' = "escalation_checker"
    /\ now' = now + 1
    /\ UNCHANGED <<max_iterations, times_looped, engine, storage_type,
                   storage, nextId, tzOffset, lastOp, artVars, routeVars, concVars, runVars>>

\* escalation_checker: an escalate event ends the loop, an exception ends
\* the run.
EscalationChecker ==
    /\ pc = "escalation_checker"
    /\ LET r == EscalationCheck(state[EVAL_KEY])
       IN  /\ events' = IF r = "raise" THEN events
                        ELSE Append(events, Event("escalation_checker", r = "escalate", NoneVal))
           /\ pc' = CASE r = "raise" -> "crashed"
                      [] r = "escalate" -> "report_composer"
                      [] OTHER -> "enhanced_search_executor"
    /\ now' = now + 1
    /\ UNCHANGED <<max_iterations, times_looped, state, engine, storage_type,
                   storage, nextId, tzOffset, lastOp, artVars, routeVars, concVars, runVars>>

EnhancedSearchExecutor ==
    /\ pc = "enhanced_search_executor"
    /\ events' = Append(events, Event("enhanced_search_executor", FALSE, NoneVal))
    /\ AfterAgent(ResearcherCallbacks, events',
                  DictPut(state, OUTPUT_KEY["enhanced_search_executor"],
                          Text(FindingsIn(state, READS["enhanced_search_executor"])
                               \cup {Finding("enhanced_search_executor",
                                             times_looped + 1)})))
    /\ times_looped' = times_looped + 1
    /\ pc' = AfterIteration(times_looped + 1, max_iterations)
    /\ now' = now + 1
    /\ UNCHANGED <<max_iterations, engine, storage_type,
                   tzOffset, artVars, routeVars, concVars, runVars>>

\* report_composer: citation_replacement_callback returns the processed
\* report as content, which is appended as an event of the agent.
ReportComposer ==
    /\ pc = "report_composer"
    /\ events' = events \o
           <<Event("report_composer_with_citations", FALSE, NoneVal)>> \o
           (IF \E k \in 1..Len(ComposerCallbacks) : ReturnsContent(ComposerCallbacks[k])
            THEN <<Event("report_composer_with_citations", FALSE, NoneVal)>> ELSE <<>>)
    /\ AfterAgent(ComposerCallbacks,
                  Append(events, Event("report_composer_with_citations", FALSE, NoneVal)),
                  DictPut(state, OUTPUT_KEY["report_composer_with_citations"],
                          Text(FindingsIn(state, READS["report_composer_with_citations"]))))
    /\ pc' = "done"
    /\ now' = now + 1
    /\ UNCHANGED <<max_iterations, times_looped, engine, storage_type,
                   tzOffset, artVars, routeVars, concVars, runVars>>

Next ==
    \/ SectionPlanner
    \/ SectionResearcher
    \/ ResearchEvaluator
    \/ EscalationChecker
    \/ EnhancedSearchExecutor
    \/ ReportComposer

Spec == Init /\ [][Next]_vars

(***************************************************************************)
(* Properties of Spec.                                                     *)
(***************************************************************************)
IsEvaluation(e) == e.author = "research_evaluator"

\* What research_evaluator produced, iteration by iteration.
Evaluations == SelectSeq(events, IsEvaluation)

Evaluators == CountBy(events, "research_evaluator")
Checks == CountBy(events, "escalation_checker")
Refinements == CountBy(events, "enhanced_search_executor")
Composers == CountBy(events, "report_composer_with_citations")

LoopOver == pc \in {"report_composer", "done"}

AllFail == \A i \in 1..Len(Evaluations) : Evaluations[i].content = FailDict

\* C1: with an evaluator that grades "fail" in every iteration the loop
\* never raises, never starts an iteration beyond the ceiling, is over only
\* after exactly max_iterations evaluator runs, escalation checks and
\* refinement runs, and the run is finished only after report_composer ran.
C1_AllFailRunsToCeiling ==
    AllFail =>
        /\ pc # "crashed"
        /\ Evaluators <= max_iterations
        /\ LoopOver => /\ Evaluators = max_iterations
                       /\ Checks = max_iterations
                       /\ Refinements = max_iterations
                       /\ times_looped = max_iterations
        /\ pc = "report_composer" => Composers = 0
        /\ pc = "done" => Composers >= 1

\* A finished run of MaxIter iterations, every one graded "fail".
C1_Witness ==
    /\ pc = "done"
    /\ AllFail
    /\ max_iterations = MaxIter
    /\ Evaluators = MaxIter

Passed == \E i \in 1..Len(Evaluations) : Evaluations[i].content = PassDict

\* The iteration of the first "pass".
FirstPass ==
    CHOOSE i \in 1..Len(Evaluations) :
        /\ Evaluations[i].content = PassDict
        /\ \A j \in 1..(i - 1) : Evaluations[j].content # PassDict

EscalateEvents == {i \in 1..Len(events) : events[i].escalate}

\* C2: once the evaluator has graded "pass" for the first time, in
\* iteration k, no evaluator run follows (k runs in all), the refinement
\* executor has run in the k - 1 earlier iterations only, and the checker
\* of iteration k emits an escalate event, its last event, that ends the loop.
C2_FirstPassEndsLoop ==
    Passed =>
        /\ FirstPass <= max_iterations
        /\ Evaluators = FirstPass
        /\ Refinements = FirstPass - 1
        /\ pc \in {"escalation_checker", "report_composer", "done"}
        /\ pc = "escalation_checker" => Checks = FirstPass - 1 /\ EscalateEvents = {}
        /\ LoopOver =>
              /\ Checks = FirstPass
              /\ Cardinality(EscalateEvents) = 1
              /\ \A i \in EscalateEvents :
                    /\ events[i].author = "escalation_checker"
                    /\ \A j \in (i + 1)..Len(events) :
                          events[j].author = "report_composer_with_citations"

\* A finished run whose first "pass" came in the second of three allowed
\* iterations.
C2_Witness ==
    /\ pc = "done"
    /\ Passed
    /\ FirstPass = 2
    /\ max_iterations > FirstPass
    /\ Refinements = 1

\* Is v a well-formed evaluation result (a Feedback dict with a grade)?
WellFormed(v) == v.kind = "dict" /\ v.grade \in {"pass", "fail"}

\* C3: an iteration whose evaluation is absent or not a well-formed result
\* is treated as not-pass: the escalation checker raises no exception, and
\* it escalates only on a well-formed "pass".
C3_BadEvaluationIsNotPass ==
    /\ pc # "crashed"
    /\ \A i \in EscalateEvents : WellFormed(state[EVAL_KEY])

\* The snapshot and trace files the session's callbacks left in the store.
SnapshotFiles == Glob(storage, ".snapshot")
TraceFiles == Glob(storage, ".json")

\* C4: over a finished session with an agent engine, snapshots were written
\* at exactly the event counts that are 1 or a multiple of 5.
C4_SnapshotAtOneAndMultiplesOfFive ==
    (pc = "done" /\ engine) =>
        {f.data.payload.event_count : f \in {g \in SnapshotFiles : g.complete}}
            = {c \in 1..Len(events) : SnapshotDue(c)}

\* C5: no event of the session has two or more trace files in the store.
C5_OneTracePerEvent ==
    \A i \in 1..Len(events) :
        Cardinality({f \in TraceFiles : f.data.payload.event_index = i - 1}) <= 1

(***************************************************************************)
(* Properties of SpecStore.                                                *)
(***************************************************************************)
ServiceSaves == {"save_event_trace", "save_session_snapshot"}
EngineSaves == {"save_agent_event_trace", "engine_save_session_snapshot"}

\* What a load of id returns from the present store when the backend is
\* reachable.
Reload(op, id) ==
    IF op = "save_event_trace"
    THEN {r.ret : r \in load_event_trace(storage, id, storage_type, "ok")}
    ELSE {r.ret : r \in load_session_snapshot(storage, id, storage_type, "ok")}

\* C6: a save on a reachable backend returns the id of the record it was
\* given, and a following load of that id returns a record equal to it.
C6_SaveLoadRoundTrip ==
    (lastOp.op \in ServiceSaves /\ lastOp.io = "ok") =>
        /\ ~lastOp.raised
        /\ lastOp.ret = <<lastOp.arg.id>>
        /\ Reload(lastOp.op, lastOp.arg.id) = {<<lastOp.arg>>}

\* C7: a save that hit a serialization or storage failure logs the failure
\* at error level and raises that failure to its caller, in the service and
\* in the AgentEngineApp wrappers.
C7_SaveFailureLoggedAndReraised ==
    (lastOp.op \in ServiceSaves \cup EngineSaves /\ lastOp.cause # "-") =>
        /\ lastOp.raised
        /\ lastOp.exc = lastOp.cause
        /\ lastOp.logged = "error"

\* No stored name of the type contains the id.
NoMatch(id, suffix) == \A f \in Glob(storage, suffix) : ~IsSubstr(id, f.name)

\* No readable stored trace belongs to the session.
NoTraceOf(sid) == \A f \in Glob(storage, ".json") : ~(f.complete /\ SessionMatches(f, sid))

Quiet == ~lastOp.raised /\ ~lastOp.changed

\* C8: a load of an id that no stored object matches returns None, a
\* list_traces for which no stored trace qualifies returns the empty list;
\* none of them raises and the store is the same as before the call.
C8_NotFoundIsNoneOrEmpty ==
    /\ (lastOp.op = "load_event_trace" /\ NoMatch(lastOp.arg, ".json"))
           => lastOp.ret = <<>> /\ Quiet
    /\ (lastOp.op = "load_session_snapshot" /\ NoMatch(lastOp.arg, ".snapshot"))
           => lastOp.ret = <<>> /\ Quiet
    /\ (lastOp.op = "list_traces" /\ NoTraceOf(lastOp.arg[1]))
           => lastOp.ret = << <<>> >> /\ Quiet

\* A load of an id that is not stored, from a store that holds records, on a
\* reachable backend.
C8_Witness ==
    /\ lastOp.op \in {"load_event_trace", "load_session_snapshot"}
    /\ lastOp.arg = UnknownId
    /\ lastOp.io = "ok"
    /\ Glob(storage, ".json") # {}
    /\ Glob(storage, ".snapshot") # {}
    /\ lastOp.ret = <<>>

\* C9: cleanup_old_traces(0) leaves no trace file on local storage; on gcs
\* it leaves the store as it was and returns 0.
C9_CleanupZeroDeletesAllLocal ==
    (lastOp.op = "cleanup_old_traces" /\ lastOp.arg = 0) =>
        /\ storage_type = "local" => Glob(storage, ".json") = {}
        /\ storage_type = "gcs" => ~lastOp.changed /\ lastOp.ret = <<0>>

(***************************************************************************)
(* SpecArtifact: the artifact writer callbacks of domain_agents/base.py.   *)
(* Agents leave their outputs in session state; the callbacks registered   *)
(* for a state key copy the value to a file under ARTIFACT_ROOT.           *)
(*                                                                         *)
(* A state value is a record                                               *)
(*   [kind, name, attr, entry, dumps, encodes]                             *)
(* kind: the Python type; attr: has the object an attribute "markdown";    *)
(* entry: has the mapping an entry "markdown"; dumps: does model_dump()    *)
(* return; encodes: can json.dumps encode the value (after model_dump()).  *)
(***************************************************************************)
Value(kind, name, attr, entry, dumps, encodes) ==
    [kind |-> kind, name |-> name, attr |-> attr, entry |-> entry,
     dumps |-> dumps, encodes |-> encodes]

ANone        == Value("none",  "None",       FALSE, FALSE, FALSE, TRUE)
AText        == Value("str",   "text",       FALSE, FALSE, FALSE, TRUE)
ADict        == Value("dict",  "dict",       FALSE, FALSE, FALSE, TRUE)
AMarkdownMap == Value("dict",  "md_dict",    FALSE, TRUE,  FALSE, TRUE)
ADateDict    == Value("dict",  "date_dict",  FALSE, FALSE, FALSE, FALSE)
AModel       == Value("model", "model",      TRUE,  FALSE, TRUE,  TRUE)
ABrokenModel == Value("model", "bad_model",  FALSE, FALSE, FALSE, FALSE)

ArtifactValues == {AText, ADict, AMarkdownMap, ADateDict, AModel, ABrokenModel}

\* The callbacks regulatory_cmc_agent registers: state key and filename.
JsonWriters == {<<"reg_payload", "regulatory_payload.json">>}
TextWriters == {<<"regulatory_brief", "regulatory_cmc_brief.md">>}
ArtifactKeys == {w[1] : w \in JsonWriters \cup TextWriters}

\* ctx.state.get(state_key)
Get(st, key) == IF key \in DOMAIN st THEN st[key] ELSE ANone

\* What the file system does to the call: nothing, mkdir fails, open fails,
\* or the write stops half way (disk full).
FsOutcomes == {"ok", "mkdir_fails", "open_fails", "write_fails"}

\* A file's content: the text form written, of which value, and whether
\* all of the text got there.
Content(form, v, complete) == [form |-> form, of |-> v.name, complete |-> complete]

\* The outcome of a callback: the files, the root directory, did it raise,
\* and the level of what it logged.
Written(files, root, raised, logged) ==
    [artifacts |-> files, artRoot |-> root, raised |-> raised, logged |-> logged]

\* A callback that skips nothing.
SkipsNever(data) == FALSE

\* if data is None: log.debug(...); return
Skips(data) == data.kind = "none"

\* _ensure_dir: path.parent.mkdir(parents=True, exist_ok=True)
ensure_dir(root, fs) ==
    IF root THEN [ok |-> TRUE, root |-> TRUE]
    ELSE IF fs = "mkdir_fails" THEN [ok |-> FALSE, root |-> FALSE]
    ELSE [ok |-> TRUE, root |-> TRUE]

\* path.write_text(text): open(path, "w") truncates the file, then the text
\* is written.
write_text(files, filename, form, v, fs) ==
    IF fs = "open_fails" THEN [ok |-> FALSE, files |-> files]
    ELSE IF fs = "write_fails"
    THEN [ok |-> FALSE,
          files |-> [f \in DOMAIN files \cup {filename} |->
                        IF f = filename THEN Content(form, v, FALSE) ELSE files[f]]]
    ELSE [ok |-> TRUE,
          files |-> [f \in DOMAIN files \cup {filename} |->
                        IF f = filename THEN Content(form, v, TRUE) ELSE files[f]]]

\* Callbacks without the except clause: a failure goes to the caller.
TryWritePropagates(files, d, textOk, filename, form, v, fs) ==
    IF ~d.ok \/ ~textOk THEN Written(files, d.root, TRUE, "none")
    ELSE LET w == write_text(files, filename, form, v, fs)
         IN  Written(w.files, d.root, ~w.ok, IF w.ok THEN "info" ELSE "none")

\* The try / except of both callbacks once the directory step d and the
\* text to write are known: textOk tells whether building the text raised.
TryWrite(files, d, textOk, filename, form, v, fs) ==
    IF ~d.ok \/ ~textOk THEN Written(files, d.root, FALSE, "warning")
    ELSE LET w == write_text(files, filename, form, v, fs)
         IN  Written(w.files, d.root, FALSE, IF w.ok THEN "info" ELSE "warning")

\* hasattr(data, "model_dump"): data.model_dump(); json.dumps(data, ...)
JsonTextOk(data) ==
    IF data.kind = "model" THEN data.dumps /\ data.encodes ELSE data.encodes

write_state_json(st, files, root, state_key, filename, fs) ==
    LET data == Get(st, state_key)
    IN  IF Skips(data) THEN Written(files, root, FALSE, "debug")
        ELSE TryWrite(files, ensure_dir(root, fs), JsonTextOk(data),
                      filename, "json", data, fs)

\* if hasattr(data, "markdown"): data = getattr(data, "markdown")
\* ... path.write_text(str(data))
TextForm(data) == IF data.attr THEN "markdown" ELSE "str"

write_state_text(st, files, root, state_key, filename, fs) ==
    LET data == Get(st, state_key)
    IN  IF Skips(data) THEN Written(files, root, FALSE, "debug")
        ELSE TryWrite(files, ensure_dir(root, fs), TRUE,
                      filename, TextForm(data), data, fs)

CallRecord(op, w, fs, r) ==
    [op |-> op, arg |-> w, io |-> fs, cause |-> "-", ret |-> <<>>,
     raised |-> r.raised, exc |-> "-", logged |-> r.logged,
     changed |-> r.artifacts # artifacts \/ r.artRoot # artRoot]

IdleStore ==
    /\ storage_type = "local"
    /\ storage = {}
    /\ nextId = 0
    /\ now = SecondsPerDay
    /\ tzOffset = 0

InitArtifact ==
    /\ pc = "idle"
    /\ max_iterations = 1
    /\ times_looped = 0
    /\ state = [k \in {} |-> ANone]
    /\ events = <<>>
    /\ engine = FALSE
    /\ IdleStore
    /\ IdleRouter
    /\ IdleWriters
    /\ IdleRunner
    /\ lastOp = NoOp
    /\ artifacts = [f \in {} |-> Content("json", ANone, TRUE)]
    /\ artRoot \in BOOLEAN

\* An agent stores its output under its output_key.
SetState ==
    /\ \E key \in ArtifactKeys, v \in ArtifactValues :
        state' = [k \in DOMAIN state \cup {key} |-> IF k = key THEN v ELSE state[k]]
    /\ lastOp' = NoOp
    /\ UNCHANGED <<pc, max_iterations, times_looped, events, engine, storeVars, artVars, routeVars, concVars, runVars>>

WriteStateJson ==
    /\ \E w \in JsonWriters, fs \in FsOutcomes :
        LET r == write_state_json(state, artifacts, artRoot, w[1], w[2], fs)
        IN  /\ artifacts' = r.artifacts
            /\ artRoot' = r.artRoot
            /\ lastOp' = CallRecord("write_state_json", w, fs, r)
    /\ UNCHANGED <<pipeVars, storeVars, routeVars, concVars, runVars>>

WriteStateText ==
    /\ \E w \in TextWriters, fs \in FsOutcomes :
        LET r == write_state_text(state, artifacts, artRoot, w[1], w[2], fs)
        IN  /\ artifacts' = r.artifacts
            /\ artRoot' = r.artRoot
            /\ lastOp' = CallRecord("write_state_text", w, fs, r)
    /\ UNCHANGED <<pipeVars, storeVars, routeVars, concVars, runVars>>

NextArtifact ==
    \/ SetState
    \/ WriteStateJson
    \/ WriteStateText

SpecArtifact == InitArtifact /\ [][NextArtifact]_vars

(***************************************************************************)
(* Properties of SpecArtifact.                                             *)
(***************************************************************************)
ArtifactWrites == {"write_state_json", "write_state_text"}

\* C10: a write_state_json / write_state_text callback that finds no value
\* under its state key creates or modifies no file (nor the artifact
\* directory) and raises no exception.
C10_MissingKeyWritesNothing ==
    (lastOp.op \in ArtifactWrites /\ Get(state, lastOp.arg[1]) = ANone) =>
        /\ ~lastOp.raised
        /\ ~lastOp.changed

\* A callback ran without a value under its key while the other callback's
\* artifact is on disk.
C10_Witness ==
    /\ lastOp.op \in ArtifactWrites
    /\ Get(state, lastOp.arg[1]) = ANone
    /\ lastOp.logged = "debug"
    /\ DOMAIN artifacts # {}

\* Did something fail inside the callback op called for writer w with file
\* system outcome fs, from the present state: directory creation, model
\* unwrapping or JSON encoding, opening or writing the file.
FailsInside(op, w, fs) ==
    LET data == Get(state, w[1])
    IN  /\ ~Skips(data)
        /\ \/ ~artRoot /\ fs = "mkdir_fails"
           \/ op = "write_state_json" /\ ~JsonTextOk(data)
           \/ fs \in {"open_fails", "write_fails"}

\* C11: a callback step in which directory creation, model unwrapping, JSON
\* encoding or the file write fails logs a warning, returns normally (no
\* exception reaches the pipeline) and leaves session state as it was.
C11_WriterFailuresSwallowed ==
    [][(lastOp'.op \in ArtifactWrites /\ FailsInside(lastOp'.op, lastOp'.arg, lastOp'.io))
          => /\ ~lastOp'.raised
             /\ lastOp'.logged = "warning"
             /\ state' = state]_vars

\* write_state_json has met a model whose model_dump() raises, on a healthy
\* file system, and returned.
C11_Witness ==
    /\ lastOp.op = "write_state_json"
    /\ lastOp.io = "ok"
    /\ Get(state, lastOp.arg[1]) = ABrokenModel
    /\ lastOp.logged = "warning"
    /\ ~lastOp.raised

\* Does the value carry a "markdown" sub-field, as an attribute of a model
\* object or as an entry of a mapping?
CarriesMarkdown(v) == v.attr \/ v.entry

\* C12: the file a successful write_state_text leaves holds the value's
\* markdown sub-field when the value carries one, and the string form of the
\* whole value only when it carries none.
C12_TextWritesMarkdownField ==
    (lastOp.op = "write_state_text" /\ lastOp.logged = "info") =>
        LET data == Get(state, lastOp.arg[1])
        IN  artifacts[lastOp.arg[2]].form =
                (IF CarriesMarkdown(data) THEN "markdown" ELSE "str")

\* C13: in every reachable state each artifact write_state_json has written
\* holds a complete value (the previous one or the new one), never a part
\* of one.
C13_JsonArtifactAtomic ==
    \A w \in JsonWriters :
        w[2] \in DOMAIN artifacts => artifacts[w[2]].complete

(***************************************************************************)
(* SpecRouter: scripts/phase_router.py resolves a phase to an agent, puts  *)
(* it into ADK_AGENT_NAME and launches the server, whose agent_engine_app  *)
(* picks the app from APP_REGISTRY; the router then posts /run with the    *)
(* application name of the agent.                                          *)
(***************************************************************************)
PHASE_TO_AGENT ==
    [k \in {"p7a", "p7b", "p7c", "p7d", "p7e", "risk", "commercial", "reg",
            "unmet", "safety", "mech"} |->
        CASE k = "p7a" -> "prior_art"
          [] k = "p7b" -> "risk"
          [] k = "p7c" -> "regulatory_cmc"
          [] k = "p7d" -> "commercial"
          [] k = "p7e" -> "mechanistic"
          [] k = "risk" -> "risk"
          [] k = "commercial" -> "commercial"
          [] k = "reg" -> "regulatory_cmc"
          [] k = "unmet" -> "unmet_need"
          [] k = "safety" -> "safety"
          [] k = "mech" -> "mechanistic"]

AGENT_TO_APPNAME ==
    [k \in {"prior_art", "commercial", "risk", "regulatory_cmc", "unmet_need",
            "safety", "mechanistic"} |->
        CASE k = "prior_art" -> "app"
          [] k = "commercial" -> "commercial_agent"
          [] k = "risk" -> "risk_agent"
          [] k = "regulatory_cmc" -> "regulatory_cmc_agent"
          [] k = "unmet_need" -> "unmet_need_agent"
          [] k = "safety" -> "safety_agent"
          [] k = "mechanistic" -> "mechanistic_agent"]

\* APP_REGISTRY: the apps are named by their registry key; "prior_art" is
\* adk_app.
APP_REGISTRY ==
    [k \in {"prior_art", "commercial", "risk", "regulatory_cmc", "unmet_need",
            "safety", "mechanistic"} |-> k]

\* key in d: the keys of the tables are lower-case texts without blanks.
InDict(d, key) == ~key.none /\ key.caps = {} /\ ~key.pad /\ key.base \in DOMAIN d

\* d.get(key)
DictGet(d, key) == IF InDict(d, key) THEN Lit(d[key.base]) ELSE None

\* a or b, on Optional[str]
Or(a, b) == IF a.none \/ a.base = "" THEN b ELSE a

\* main: phase_key = args.phase.lower()
\*       agent = (args.agent or PHASE_TO_AGENT.get(phase_key) or "prior_art").strip()
ResolveAgent(phase, agent) ==
    Strip(Or(agent, Or(DictGet(PHASE_TO_AGENT, Lower(phase)), Lit("prior_art"))))

\* main: app_name = AGENT_TO_APPNAME.get(agent, "app")
AppName(agent) == Or(DictGet(AGENT_TO_APPNAME, agent), Lit("app"))

\* agent_engine_app:
\*   selected_app_name = os.environ.get("ADK_AGENT_NAME", "prior_art").strip().lower()
SelectedAppName(env) == Lower(Strip(IF env.none THEN Lit("prior_art") ELSE env))

\*   selected_app = APP_REGISTRY.get(selected_app_name, adk_app)
SelectedApp(name) == Or(DictGet(APP_REGISTRY, name), Lit("prior_art"))

\*   if selected_app is adk_app and selected_app_name not in APP_REGISTRY: warning
FallbackWarned(name) ==
    SelectedApp(name) = Lit("prior_art") /\ ~InDict(APP_REGISTRY, name)

LogLine(level, about) == [level |-> level, about |-> about]

\* The command lines tried: phases and agent overrides in several spellings.
Phases ==
    {Txt("p7b", c) : c \in SUBSET {1, 3}} \cup {Txt("zz", c) : c \in SUBSET {1, 2}}
        \cup {Lit("p7d"), Lit("reg"), Padded(Lit("p7b"))}

Overrides ==
    {None, Lit("risk"), Txt("risk", {1}), Lit("commercial"), Lit("bogus"),
     Padded(Lit("risk"))}

\* --headless / --auto-run as given on the command line.
Modes == {"", "--headless", "--auto-run", "--headless --auto-run"}

\* if args.headless and not args.auto_run: the server is left running in
\* the background and main returns 0.
Detached(mode) == mode = "--headless"

InitRouter ==
    /\ IdlePipe
    /\ IdleStore
    /\ IdleArtifacts
    /\ lastOp = NoOp
    /\ IdleWriters
    /\ IdleRunner
    /\ argv \in [phase : Phases, agent : Overrides, mode : Modes]
    /\ environ = None
    /\ rpc = "start"
    /\ selected = None
    /\ posted = None
    /\ rlog = {}
    /\ proc = "none"

\* main, up to the launch of the server: subprocess.Popen(cmd, ...).
RouterMain ==
    /\ rpc = "start"
    /\ environ' = ResolveAgent(argv.phase, argv.agent)
    /\ rlog' = rlog \cup {LogLine("print", "ADK_AGENT_NAME")}
    /\ proc' = "running"
    /\ rpc' = "launched"
    /\ UNCHANGED <<argv, selected, posted, pipeVars, storeVars, artVars, lastOp, concVars, runVars>>

\* The server imports agent_engine_app, which selects the app; in the
\* sequential mode _wait_ready then sees /list-apps answer.
LoadEngineApp ==
    /\ rpc = "launched"
    /\ selected' = SelectedApp(SelectedAppName(environ))
    /\ rlog' = rlog \cup (IF FallbackWarned(SelectedAppName(environ))
                          THEN {LogLine("warning", "ADK_AGENT_NAME")} ELSE {})
    /\ rpc' = IF Detached(argv.mode) THEN "detached" ELSE "serving"
    /\ UNCHANGED <<argv, environ, posted, proc, pipeVars, storeVars, artVars, lastOp, concVars, runVars>>

\* main, sequential mode: "import requests" raises; print and return 1.
ImportFails ==
    /\ rpc = "launched"
    /\ ~Detached(argv.mode)
    /\ rlog' = rlog \cup {LogLine("print", "requests not available")}
    /\ rpc' = "failed"
    /\ UNCHANGED <<argv, environ, selected, posted, proc, pipeVars, storeVars, artVars,
                   lastOp, concVars, runVars>>

\* main, sequential mode: the server does not get ready in time;
\* proc.terminate() and return 1.
ServerNotReady ==
    /\ rpc = "launched"
    /\ ~Detached(argv.mode)
    /\ rlog' = rlog \cup {LogLine("print", "not ready")}
    /\ proc' = "terminated"
    /\ rpc' = "failed"
    /\ UNCHANGED <<argv, environ, selected, posted, pipeVars, storeVars, artVars, lastOp, concVars, runVars>>

\* What requests.post(.../run) can do: answer ok, answer with an error
\* status, or raise.
RunOutcomes == {"ok", "not ok", "raises"}

\* main, sequential mode: POST /run with the payload; every way out of the
\* try statement calls proc.terminate(); return 0 after an ok answer and 1
\* otherwise.
PostRun ==
    /\ rpc = "serving"
    /\ posted' = AppName(environ)
    /\ \E out \in RunOutcomes :
        /\ rpc' = IF out = "ok" THEN "done" ELSE "failed"
        /\ rlog' = rlog \cup {LogLine("print", CASE out = "ok" -> "/run completed"
                                                 [] out = "not ok" -> "/run failed"
                                                 [] OTHER -> "ERROR calling /run")}
    /\ proc' = "terminated"
    /\ UNCHANGED <<argv, environ, selected, pipeVars, storeVars, artVars, lastOp, concVars, runVars>>

NextRouter ==
    \/ RouterMain
    \/ LoadEngineApp
    \/ ImportFails
    \/ ServerNotReady
    \/ PostRun

SpecRouter == InitRouter /\ [][NextRouter]_vars

(***************************************************************************)
(* Properties of SpecRouter.                                               *)
(***************************************************************************)
Selected == rpc \in {"serving", "detached", "done"}

Warned == \E l \in rlog : l.level = "warning"

\* C14: without an override, phase p7b in any letter case selects the risk
\* pipeline and posts application name risk_agent; an unrecognized phase
\* selects the default pipeline and a warning is logged for it.
C14_PhaseSelectsPipeline ==
    (Selected /\ argv.agent = None /\ ~argv.phase.pad) =>
        /\ Lower(argv.phase) = Lit("p7b") =>
              /\ selected = Lit("risk")
              /\ rpc = "done" => posted = Lit("risk_agent")
        /\ ~InDict(PHASE_TO_AGENT, Lower(argv.phase)) =>
              /\ selected = Lit("prior_art")
              /\ rpc = "done" => posted = Lit("app")
              /\ Warned

\* C15: the agent is the override if one is given, else the table's entry
\* for the phase, else the default; and a run resolves to the pipeline and
\* the application name that the same command line in lower case resolves to.
C15_OrderAndCaseInsensitive ==
    LET low == ResolveAgent(Lower(argv.phase), Lower(argv.agent))
    IN  /\ rpc # "start" =>
              environ = (IF ~argv.agent.none THEN Strip(argv.agent)
                         ELSE IF InDict(PHASE_TO_AGENT, Lower(argv.phase))
                         THEN Lit(PHASE_TO_AGENT[argv.phase.base])
                         ELSE Lit("prior_art"))
        /\ Selected => selected = SelectedApp(SelectedAppName(low))
        /\ rpc = "done" => posted = AppName(low)

(***************************************************************************)
(* SpecConc: one caller per session saves records into the same store, the *)
(* calls interleaved.  A save call is three steps: the caller builds the   *)
(* record (a new uuid4), the service names the file from utcnow() and      *)
(* opens it (gcs: names the blob), the service writes the JSON text (gcs:  *)
(* encodes and uploads).                                                   *)
(* A writer is [pc, obj, suffix, at, names, calls]: names are the names    *)
(* it wrote under so far, calls the number of saves it named.              *)
(***************************************************************************)
IdleWriter ==
    [pc |-> "idle", obj |-> TraceObj(<<>>, "-", 0, "-", Payload(0, 0, NoneVal)),
     suffix |-> "-", at |-> 0, names |-> {}, calls |-> 0]

InitConc ==
    /\ IdlePipe
    /\ IdleArtifacts
    /\ IdleRouter
    /\ storage_type \in {"local", "gcs"}
    /\ storage = ArchivedFiles
    /\ nextId = 0
    /\ now = SecondsPerDay
    /\ tzOffset = 0
    /\ lastOp = NoOp
    /\ writers = [w \in Sessions |-> IdleWriter]
    /\ IdleRunner

\* The caller builds an AgentEventTrace / a SessionStateSnapshot and calls
\* save_event_trace / save_session_snapshot.
BeginSave(w) ==
    /\ writers[w].pc = "idle"
    /\ nextId < MaxWrites
    /\ \E suffix \in {".json", ".snapshot"} :
        writers' = [writers EXCEPT ![w].pc = "called",
                                   ![w].obj = TraceObj(Uuid(nextId), w, now, "test_agent",
                                                       Payload(0, 0, NoneVal)),
                                   ![w].suffix = suffix]
    /\ nextId' = nextId + 1
    /\ UNCHANGED <<storage_type, storage, now, tzOffset, lastOp,
                   pipeVars, artVars, routeVars, runVars>>

\* model_dump(), the name from utcnow(), and (local) open(path, "w").
OpenFile(w) ==
    /\ writers[w].pc = "called"
    /\ LET name == TraceFileName(now, writers[w].obj.id, writers[w].suffix)
       IN  /\ writers' = [writers EXCEPT ![w].pc = "opened",
                                         ![w].at = now,
                                         ![w].names = @ \cup {name},
                                         ![w].calls = @ + 1]
           /\ storage' = IF storage_type = "local"
                         THEN Put(storage, File(name, FALSE, ModelDump(writers[w].obj), now))
                         ELSE storage
    /\ UNCHANGED <<storage_type, nextId, now, tzOffset, lastOp,
                   pipeVars, artVars, routeVars, runVars>>

\* json.dump into the open file / json.dumps and upload_from_string, and the
\* return or the except clause.
WriteFile(w) ==
    /\ writers[w].pc = "opened"
    /\ LET r == SaveRecord(storage, writers[w].obj, writers[w].suffix, storage_type,
                           writers[w].at, "ok")
       IN  /\ storage' = r.storage
           /\ lastOp' = OpRecord("save", writers[w].obj, "ok", r.exc, r)
    /\ writers' = [writers EXCEPT ![w].pc = "idle"]
    /\ UNCHANGED <<storage_type, nextId, now, tzOffset, pipeVars, artVars, routeVars, runVars>>

\* A second passes.
Tick ==
    /\ now < SecondsPerDay + MaxWrites
    /\ now' = now + 1
    /\ UNCHANGED <<storage_type, storage, nextId, tzOffset, lastOp,
                   pipeVars, artVars, routeVars, concVars, runVars>>

NextConc ==
    \/ \E w \in Sessions : BeginSave(w)
    \/ \E w \in Sessions : OpenFile(w)
    \/ \E w \in Sessions : WriteFile(w)
    \/ Tick

SpecConc == InitConc /\ [][NextConc]_vars

(***************************************************************************)
(* Properties of SpecConc.                                                 *)
(***************************************************************************)
\* C16: whatever the interleaving, no two save calls write under the same
\* name: callers of different sessions share no name, each call of a caller
\* has a name of its own, on local storage every name a caller wrote under
\* still carries that caller's record, and the records found in the store
\* are still there.
C16_NamesNeverCollide ==
    /\ \A w1, w2 \in Sessions :
          w1 # w2 => writers[w1].names \cap writers[w2].names = {}
    /\ \A w \in Sessions :
          /\ Cardinality(writers[w].names) = writers[w].calls
          /\ storage_type = "local" =>
                \A n \in writers[w].names :
                    \E f \in storage : f.name = n /\ f.data.session_id = w
    /\ ArchivedFiles \subseteq storage

\* Both callers have a file of the same type open, named in the same second.
C16_Witness ==
    /\ storage_type = "local"
    /\ \A w \in Sessions : writers[w].pc = "opened"
    /\ \A w1, w2 \in Sessions :
          /\ writers[w1].at = writers[w2].at
          /\ writers[w1].suffix = writers[w2].suffix

(***************************************************************************)
(* Further properties of Spec.                                             *)
(***************************************************************************)
\* The events of the session that have a trace file in the store, complete
\* or not.
TracedEvents == {f.data.payload.event_index + 1 : f \in TraceFiles}

\* C17: when a run with an agent engine on local storage has finished, every
\* event of the session, those of the evaluator, the escalation checker and
\* the report composer included, has at least one trace in the store.
C17_EveryEventTraced ==
    (pc = "done" /\ engine /\ storage_type = "local") =>
        \A i \in 1..Len(events) : i \in TracedEvents

\* C20: the escalation checker escalates only on the Evaluation Result the
\* evaluator wrote in the same iteration: every escalate event directly
\* follows an evaluator event that produced a "pass".
C20_EscalatesOnFreshResultOnly ==
    \A i \in EscalateEvents :
        /\ i > 1
        /\ events[i - 1].author = "research_evaluator"
        /\ events[i - 1].content = PassDict

(***************************************************************************)
(* SpecFeedback: research_evaluator's responses meet the Feedback schema.  *)
(* A response is [grade, comment, follow_up_queries]: grade is the text    *)
(* given ("-" when the field is missing), comment tells whether a string   *)
(* was given, follow_up_queries is "absent", "null", "empty" (the list     *)
(* []), "some" (a non-empty list of SearchQuery) or "malformed".           *)
(***************************************************************************)
Response(grade, comment, queries) ==
    [grade |-> grade, comment |-> comment, follow_up_queries |-> queries]

Responses ==
    {Response(g, c, q) : g \in {"pass", "fail", "maybe", "-"}, c \in BOOLEAN,
                         q \in {"absent", "null", "empty", "some", "malformed"}}

\* Feedback: grade: Literal["pass", "fail"]; comment: str;
\* follow_up_queries: list[SearchQuery] | None = None.  There is no validator.
FeedbackAccepts(r) ==
    /\ r.grade \in {"pass", "fail"}
    /\ r.comment
    /\ r.follow_up_queries \in {"absent", "null", "empty", "some"}

\* The Evaluation Result kept in session state for an accepted response.
Stored(r) ==
    [kind |-> "dict", grade |-> r.grade,
     follow_up_queries |-> IF r.follow_up_queries = "absent" THEN "null"
                           ELSE r.follow_up_queries]

NoResult == [kind |-> "none", grade |-> "-", follow_up_queries |-> "null"]

InitFeedback ==
    /\ pc = "research_evaluator"
    /\ max_iterations \in 1..MaxIter
    /\ times_looped = 0
    /\ state = [k \in {EVAL_KEY} |-> NoResult]
    /\ events = <<>>
    /\ engine = FALSE
    /\ IdleStore
    /\ IdleArtifacts
    /\ IdleRouter
    /\ IdleWriters
    /\ IdleRunner
    /\ lastOp = NoOp

\* research_evaluator answers; the answer is validated against Feedback and,
\* when accepted, stored under output_key.
EvaluatorResponds ==
    /\ pc = "research_evaluator"
    /\ times_looped < max_iterations
    /\ \E r \in Responses :
        /\ state' = IF FeedbackAccepts(r) THEN [state EXCEPT ![EVAL_KEY] = Stored(r)]
                    ELSE state
        /\ pc' = IF FeedbackAccepts(r) THEN "stored" ELSE "rejected"
        /\ lastOp' = [NoOp EXCEPT !.op = "validate", !.arg = r,
                                  !.raised = ~FeedbackAccepts(r),
                                  !.changed = FeedbackAccepts(r)]
    /\ UNCHANGED <<max_iterations, times_looped, events, engine, storeVars,
                   artVars, routeVars, concVars, runVars>>

\* The loop goes on to its next iteration.
NextEvaluation ==
    /\ pc = "stored"
    /\ times_looped' = times_looped + 1
    /\ pc' = "research_evaluator"
    /\ UNCHANGED <<max_iterations, state, events, engine, storeVars, lastOp,
                   artVars, routeVars, concVars, runVars>>

NextFeedback ==
    \/ EvaluatorResponds
    \/ NextEvaluation

SpecFeedback == InitFeedback /\ [][NextFeedback]_vars

(***************************************************************************)
(* Properties of SpecFeedback.                                             *)
(***************************************************************************)
\* C18: an Evaluation Result stored under research_evaluation has an empty
\* or absent follow_up_queries list if and only if its grade is "pass".
C18_QueriesEmptyIffPass ==
    state[EVAL_KEY].kind = "dict" =>
        (state[EVAL_KEY].follow_up_queries \in {"null", "empty"}
            <=> state[EVAL_KEY].grade = "pass")

(***************************************************************************)
(* Further properties of SpecStore.                                        *)
(***************************************************************************)
\* C19: list_traces(session_id = s, limit = L) on a reachable backend returns
\* at most L entries, each of session s, and returns the empty list only if
\* no readable trace of session s is stored.
C19_ListReturnsSessionTraces ==
    (lastOp.op = "list_traces" /\ lastOp.io = "ok" /\ lastOp.arg[1] # "*") =>
        LET listed == lastOp.ret[1]
        IN  /\ Len(listed) <= lastOp.arg[2]
            /\ \A i \in 1..Len(listed) : listed[i].session_id = lastOp.arg[1]
            /\ listed = <<>> => NoTraceOf(lastOp.arg[1])

\* C25: after a save_event_trace / save_session_snapshot that raised on
\* local storage, no stored file carries the id of the record it was given.
C25_FailedSaveLeavesNoFile ==
    (lastOp.op \in ServiceSaves /\ lastOp.raised /\ storage_type = "local") =>
        \A f \in storage : ~IsSubstr(lastOp.arg.id, f.name)

\* C26: a load that returns a record returns one whose trace_id / snapshot_id
\* equals the requested id.
C26_LoadReturnsRequestedId ==
    (lastOp.op \in {"load_event_trace", "load_session_snapshot"} /\ lastOp.ret # <<>>) =>
        lastOp.ret[1].id = lastOp.arg


\* C29: a cleanup_old_traces call leaves the stored .snapshot records as
\* they were, whatever max_age_days and the store are, and the count it
\* returns is the number of event-trace files it removed.
C29_CleanupKeepsSnapshots ==
    [][lastOp'.op = "cleanup_old_traces" =>
          /\ Glob(storage', ".snapshot") = Glob(storage, ".snapshot")
          /\ lastOp'.ret = <<Cardinality(Glob(storage, ".json"))
                              - Cardinality(Glob(storage', ".json"))>>]_vars

\* A cleanup removed a trace file while a snapshot older than the cutoff is
\* still stored.
C29_Witness ==
    /\ lastOp.op = "cleanup_old_traces"
    /\ lastOp.ret # <<0>>
    /\ \E f \in Glob(storage, ".snapshot") : f.mtime < Cutoff(now, tzOffset, lastOp.arg)


(***************************************************************************)
(* Properties of the callbacks in Spec.                                    *)
(***************************************************************************)
\* C22: trace_persistence_callback never raises into the pipeline.  With an
\* agent engine it makes a save call for every event of the session however
\* many of them fail, logs every failure, and runs the snapshot step exactly
\* when the event count is 1 or a multiple of 5; without an agent engine it
\* logs a warning, makes no call and stores nothing.
C22_CallbackNeverRaises ==
    lastOp.op = "trace_persistence_callback" =>
        LET did == lastOp.ret[1]
        IN  /\ ~lastOp.raised
            /\ engine => /\ did.attempts = lastOp.arg
                         /\ did.errors = did.failed
                         /\ did.failed > 0 => lastOp.logged = "error"
                         /\ did.snapshot # "none" <=> SnapshotDue(lastOp.arg)
            /\ ~engine => /\ did.attempts = 0
                          /\ did.snapshot = "none"
                          /\ lastOp.logged = "warning"
                          /\ storage = {}

\* The callback ran over ten events with an agent engine: several saves
\* failed and the snapshot step ran and failed too.
C22_Witness ==
    /\ lastOp.op = "trace_persistence_callback"
    /\ engine
    /\ lastOp.arg = 10
    /\ lastOp.ret[1].failed >= 2
    /\ lastOp.ret[1].attempts = 10
    /\ lastOp.ret[1].snapshot = "failed"


(***************************************************************************)
(* SpecSources: collect_research_sources_callback over a session whose     *)
(* research steps (section_researcher, then enhanced_search_executor once  *)
(* per iteration of the loop) append events with grounding metadata.  The  *)
(* callback is the after_agent_callback of both agents and goes over all   *)
(* of session.events each time it fires; the steps of the other agents     *)
(* append events without grounding metadata, which it passes over.  The    *)
(* specification lets it fire after any number of new events, none         *)
(* included.                                                               *)
(***************************************************************************)
Urls == {"u1", "u2"}

\* The text segment grounded by the k-th event.
Segment(k) == <<"segment", k>>

\* What the k-th event can carry: no grounding metadata, or chunks and
\* supports (a URL alone, two URLs under one support, a chunk that is no
\* web page, the same URL twice).
Groundings(k) ==
    {[chunks |-> <<>>, supports |-> <<>>],
     [chunks |-> <<WebChunk("u1")>>,
      supports |-> <<Support(Segment(k), <<0>>, <<9>>)>>],
     [chunks |-> <<WebChunk("u2"), WebChunk("u1")>>,
      supports |-> <<Support(Segment(k), <<0, 1>>, <<>>)>>],
     [chunks |-> <<OtherChunk, WebChunk("u2")>>,
      supports |-> <<Support(Segment(k), <<0, 1>>, <<8>>)>>],
     [chunks |-> <<WebChunk("u1"), WebChunk("u1")>>,
      supports |-> <<>>]}

InitSources ==
    /\ pc = "section_researcher"
    /\ max_iterations \in 1..MaxIter
    /\ times_looped = 0
    /\ state = EmptyDict
    /\ events = <<>>
    /\ engine = FALSE
    /\ IdleStore
    /\ IdleArtifacts
    /\ IdleRouter
    /\ IdleWriters
    /\ IdleRunner
    /\ lastOp = NoOp

\* The running step appends an event.
ResearchEvent ==
    /\ pc \in {"section_researcher", "enhanced_search_executor"}
    /\ Len(events) < MaxSrcEvents
    /\ \E g \in Groundings(Len(events) + 1) :
        events' = Append(events,
                         IF g.chunks = <<>> THEN Event(pc, FALSE, NoneVal)
                         ELSE GroundedEvent(pc, g.chunks, g.supports))
    /\ lastOp' = NoOp
    /\ UNCHANGED <<pc, max_iterations, times_looped, state, engine, storeVars,
                   artVars, routeVars, concVars, runVars>>

CollectRecord(st) ==
    [NoOp EXCEPT !.op = "collect_research_sources_callback", !.arg = Len(events),
                 !.changed = st # state]

\* section_researcher has finished: its after_agent_callback fires and the
\* loop starts.
ResearcherCollects ==
    /\ pc = "section_researcher"
    /\ state' = collect_research_sources_callback(events, state)
    /\ lastOp' = CollectRecord(state')
    /\ pc' = "enhanced_search_executor"
    /\ UNCHANGED <<max_iterations, times_looped, events, engine, storeVars,
                   artVars, routeVars, concVars, runVars>>

\* enhanced_search_executor has finished: its after_agent_callback fires and
\* the iteration is over.
ExecutorCollects ==
    /\ pc = "enhanced_search_executor"
    /\ LoopContinues(times_looped, max_iterations)
    /\ state' = collect_research_sources_callback(events, state)
    /\ lastOp' = CollectRecord(state')
    /\ times_looped' = times_looped + 1
    /\ UNCHANGED <<pc, max_iterations, events, engine, storeVars,
                   artVars, routeVars, concVars, runVars>>

NextSources ==
    \/ ResearchEvent
    \/ ResearcherCollects
    \/ ExecutorCollects

SpecSources == InitSources /\ [][NextSources]_vars

(***************************************************************************)
(* Properties of SpecSources.                                              *)
(***************************************************************************)
UrlToShortId(st) == DictGetOr(st, "url_to_short_id", EmptyDict)
SourcesOf(st) == DictGetOr(st, "sources", EmptyDict)

SourcesConsistent ==
    LET m == UrlToShortId(state)
        src == SourcesOf(state)
    IN  /\ \A u, v \in DOMAIN m : m[u] = m[v] => u = v
        /\ DOMAIN src = {m[u] : u \in DOMAIN m}
        /\ \A u \in DOMAIN m : src[m[u]].url = u /\ src[m[u]].short_id = m[u]
        /\ {m[u] : u \in DOMAIN m} = {ShortId(k) : k \in 1..Cardinality(DOMAIN m)}

ShortIdsKept ==
    \A u \in DOMAIN UrlToShortId(state) :
        /\ u \in DOMAIN UrlToShortId(state')
        /\ UrlToShortId(state')[u] = UrlToShortId(state)[u]

\* C27: from empty state, after any sequence of callback invocations
\* url_to_short_id is injective, sources has exactly the assigned short ids
\* as keys, each entry carrying its own short id and the URL that maps to
\* it, the short ids are src-1..src-n without gaps, and no step changes the
\* short id of a URL that has one.
C27_SourceIdsConsistent == []SourcesConsistent /\ [][ShortIdsKept]_vars

\* Two URLs have short ids, the second one assigned by a later invocation
\* than the first, from an event that also cites the first URL.
C27_Witness ==
    /\ lastOp.op = "collect_research_sources_callback"
    /\ times_looped >= 1
    /\ DOMAIN UrlToShortId(state) = Urls
    /\ UrlToShortId(state)["u1"] = ShortId(1)
    /\ UrlToShortId(state)["u2"] = ShortId(2)
    /\ Len(events) = 2
    /\ GroundingChunks(events[1]) = <<WebChunk("u1")>>
    /\ GroundingChunks(events[2]) = <<WebChunk("u2"), WebChunk("u1")>>
    /\ Len(SourcesOf(state)[ShortId(1)].supported_claims) >= 2

\* How often the text segment of the k-th event is listed under a source.
Listed(st, short_id, k) ==
    LET claims == SourcesOf(st)[short_id].supported_claims
    IN  Cardinality({i \in 1..Len(claims) : claims[i].text_segment = Segment(k)})

\* C28: an invocation of the callback that follows another one without a
\* new event in between leaves session state as it was, and after any
\* invocation no text segment of an event is listed more than once under a
\* source.
C28_CollectIdempotent ==
    [][lastOp'.op = "collect_research_sources_callback" =>
          /\ (lastOp.op = "collect_research_sources_callback" /\ events' = events)
                 => state' = state
          /\ \A short_id \in DOMAIN SourcesOf(state') : \A k \in 1..Len(events) :
                 Listed(state', short_id, k) <= 1]_vars


(***************************************************************************)
(* Further properties of SpecRouter.                                       *)
(***************************************************************************)
\* The name each app of APP_REGISTRY was built with: adk_app is
\* App(name="app"), a domain app is build_app(pipeline, name="<key>_agent").
APP_NAMES ==
    [k \in DOMAIN APP_REGISTRY |->
        CASE k = "prior_art" -> "app"
          [] k = "commercial" -> "commercial_agent"
          [] k = "risk" -> "risk_agent"
          [] k = "regulatory_cmc" -> "regulatory_cmc_agent"
          [] k = "unmet_need" -> "unmet_need_agent"
          [] k = "safety" -> "safety_agent"
          [] k = "mechanistic" -> "mechanistic_agent"]

\* main has returned from the sequential path.
Returned == rpc \in {"done", "failed"}

\* C23: whenever the router has posted a run request, the application name
\* in its payload is the name of the app the server selected from
\* ADK_AGENT_NAME, and it is "app" only if the server selected the default
\* prior-art pipeline.
C23_PayloadNamesSelectedApp ==
    (Returned /\ posted # None) =>
        /\ posted = Lit(APP_NAMES[selected.base])
        /\ posted = Lit("app") => selected = Lit("prior_art")

\* C24: once main has returned from the sequential path, the server process
\* it spawned has been terminated; and a run request was posted only after
\* the server was seen ready.
C24_ServerTerminatedOnReturn ==
    /\ Returned => proc = "terminated"
    /\ posted # None => /\ selected # None
                        /\ LogLine("print", "not ready") \notin rlog


\* The findings the refinement step has produced so far.
Refined == {Finding("enhanced_search_executor", k) : k \in 1..Refinements}

\* C21: the refinement step merges into the key the initial research step
\* wrote (after a refinement its key holds the initial findings too), the
\* evaluator of a later iteration grades a text that holds every refinement
\* made so far, and the report of a finished run is composed from a text
\* that holds every refinement made.
C21_RefinementReachesReport ==
    /\ Refinements > 0 =>
          Finding("section_researcher", 0)
              \in FindingsIn(state, {OUTPUT_KEY["enhanced_search_executor"]})
    /\ pc = "escalation_checker" =>
          Refined \subseteq FindingsIn(state, READS["research_evaluator"])
    /\ pc = "done" =>
          Refined \subseteq FindingsIn(state, {OUTPUT_KEY["report_composer_with_citations"]})

(***************************************************************************)
(* scripts/run_adk_agents.py                                               *)
(***************************************************************************)

DEFAULT_AGENTS ==
    <<Lit("prior_art"), Lit("risk"), Lit("regulatory_cmc"), Lit("commercial"),
      Lit("mechanistic"), Lit("safety"), Lit("unmet_need")>>

\* --project-id of the run.
PROJECT == Lit("demo")

\* The pieces args.agents.split(",") can give: a name, a name with blanks
\* around it, and nothing (two commas in a row, or a comma at an end).
Pieces == {Lit("risk"), Padded(Lit("commercial")), Lit("")}

\* The values of --agents that are not empty: one to MaxAgents pieces.  The
\* single empty piece is the empty string, for which the default list runs.
AgentArgs ==
    UNION {[1..n -> Pieces] : n \in 1..MaxAgents} \ {<<Lit("")>>}

\* `if args.agents`: the option was given and is not the empty string.
Given(pieces) == pieces # <<>> /\ pieces # <<Lit("")>>

\* [a.strip() for a in pieces if a.strip()]
StripAll(pieces) ==
    LET kept == {k \in 1..Len(pieces) : Strip(pieces[k]).base # ""}
        nth[k \in 0..Len(pieces)] ==
            IF k = 0 THEN <<>>
            ELSE IF k \in kept THEN Append(nth[k - 1], Strip(pieces[k]))
                 ELSE nth[k - 1]
    IN nth[Len(pieces)]

ParseAgents(pieces) ==
    IF Given(pieces) THEN StripAll(pieces) ELSE DEFAULT_AGENTS

\* session_id = f"{args.project_id}-{agent}"
SessionId(project, agent) == <<project, "-", agent>>

\* What a requests.post can do: a response with a status, or an exception.
SessionOutcomes == {"accepted", "refused", "raises"}
PostOutcomes == {"ok", "not ok", "raises"}

\* return 1 if any_fail else 0
ExitCodeZero(any_fail) == 0
ExitCode(any_fail) == IF any_fail THEN 1 ELSE 0

InitRun ==
    /\ IdlePipe
    /\ IdleStore
    /\ IdleArtifacts
    /\ IdleRouter
    /\ IdleWriters
    /\ lastOp = NoOp
    /\ \E pieces \in AgentArgs :
           runner = [NotRunning EXCEPT !.at = "start", !.args = pieces]

\* main up to the loop: resolve the agent list; an empty list ends the run.
RunnerParse ==
    /\ runner.at = "start"
    /\ LET agents == ParseAgents(runner.args)
       IN runner' =
            IF agents = <<>>
            THEN [runner EXCEPT !.at = "exit", !.code = 1]
            ELSE [runner EXCEPT !.at = "create", !.agents = agents,
                                !.i = 1, !.url = 1]
    /\ UNCHANGED <<pipeVars, storeVars, artVars, lastOp, routeVars, concVars>>

\* One pass of the loop in create_session: a post to the next URL variant.
\* An accepted status returns; after the second variant the function
\* returns as well, whatever happened.
CreateSession ==
    /\ runner.at = "create"
    /\ \E out \in SessionOutcomes :
         runner' =
            IF out = "accepted" \/ runner.url = 2
            THEN [runner EXCEPT !.at = "run", !.url = 1,
                                !.created = (out = "accepted"),
                                !.session_calls = runner.url]
            ELSE [runner EXCEPT !.url = 2]
    /\ UNCHANGED <<pipeVars, storeVars, artVars, lastOp, routeVars, concVars>>

\* The end of one pass of the loop in main: record the agent, set any_fail,
\* go on with the next agent or return.
NextAgent(r, run, ok) ==
    LET any_fail == r.any_fail \/ ~ok
        entry == [agent |-> r.agents[r.i],
                  session_id |-> SessionId(PROJECT, r.agents[r.i]),
                  created |-> r.created, session_calls |-> r.session_calls,
                  run |-> run, ok |-> ok]
        logged == [r EXCEPT !.log = Append(r.log, entry), !.run = <<>>,
                            !.any_fail = any_fail, !.url = 1,
                            !.created = FALSE, !.session_calls = 0]
    IN IF r.i < Len(r.agents)
       THEN [logged EXCEPT !.at = "create", !.i = r.i + 1]
       ELSE [logged EXCEPT !.at = "exit", !.code = ExitCode(any_fail)]

\* One pass of the loop in run_agent: a post to the next endpoint.  resp.ok
\* returns True; after the second endpoint the function returns False.
RunAgent ==
    /\ runner.at = "run"
    /\ \E out \in PostOutcomes :
         LET run == Append(runner.run, out)
         IN runner' =
              IF out = "ok" THEN NextAgent(runner, run, TRUE)
              ELSE IF runner.url = 2 THEN NextAgent(runner, run, FALSE)
              ELSE [runner EXCEPT !.url = 2, !.run = run]
    /\ UNCHANGED <<pipeVars, storeVars, artVars, lastOp, routeVars, concVars>>

NextRun ==
    \/ RunnerParse
    \/ CreateSession
    \/ RunAgent

SpecRun == InitRun /\ [][NextRun]_vars

\* The agents the command line asks for, in order.
Requested == ParseAgents(runner.args)

\* The agents the run is through with were taken in the order requested,
\* each under the session id '<project>-<agent>'.
InOrder ==
    /\ Len(runner.log) <= Len(Requested)
    /\ \A k \in 1..Len(runner.log) :
          /\ runner.log[k].agent = Requested[k]
          /\ runner.log[k].session_id = <<PROJECT, "-", Requested[k]>>

\* Each agent got one or two run requests, none after a successful one and
\* a second one after every failed first one, session or no session.
EndpointsTried ==
    \A k \in 1..Len(runner.log) :
        LET e == runner.log[k]
        IN /\ Len(e.run) \in 1..2
           /\ e.ok = (e.run[Len(e.run)] = "ok")
           /\ Len(e.run) = 2 => e.run[1] # "ok"
           /\ Len(e.run) = 1 => e.run[1] = "ok"

SomeAgentFailed == \E k \in 1..Len(runner.log) : ~runner.log[k].ok

\* What holds of a run apart from its exit code.
RunsEveryAgent ==
    /\ InOrder
    /\ EndpointsTried
    /\ runner.at = "exit" =>
          /\ Len(runner.log) = Len(Requested)
          /\ runner.code \in {0, 1}

\* C30: main invokes the requested agents one after another under the
\* session id '<project>-<agent>', attempts every agent even after an
\* earlier one failed, tries at most the two run endpoints per agent and
\* stops at the first successful response, attempts the run whether or not
\* the session was created, and exits with 1 if and only if at least one
\* agent had no successful response, with 0 otherwise.
C30_ExitOneIffAgentFailed ==
    /\ RunsEveryAgent
    /\ runner.at = "exit" => (runner.code = 1 <=> SomeAgentFailed)

\* C30, amended: as above, but the exit code is 1 if and only if no agent
\* was requested or at least one agent had no successful response.
C30_ExitOneIffNoAgentOrFailed ==
    /\ RunsEveryAgent
    /\ runner.at = "exit" =>
          (runner.code = 1 <=> (Requested = <<>> \/ SomeAgentFailed))

\* Two agents were requested; no session could be created for the first and
\* both of its run requests failed, yet the second agent ran and succeeded
\* at the second endpoint; the exit code is 1.
C30_Witness ==
    /\ runner.at = "exit"
    /\ runner.code = 1
    /\ Len(runner.log) = 2
    /\ ~runner.log[1].created
    /\ runner.log[1].session_calls = 2
    /\ runner.log[1].run = <<"raises", "not ok">>
    /\ runner.log[2].run = <<"not ok", "ok">>
    /\ runner.log[2].ok

====
